---------------------------- MODULE Spec2Model ----------------------------
(***************************************************************************)
(* PR Author Agent: the Diff-Plan-to-Artifact pipeline of                  *)
(* docs/pr-author-agent/scripts (generate_pr.py, template_engine.py) and   *)
(* the orchestrator's use of the VCS gateway.                              *)
(*                                                                         *)
(* Strings are sequences of one-character strings, so that the string      *)
(* operations of the source (replace, split, title, capitalize, regular    *)
(* expression substitution) are computed and not assumed.                  *)
(***************************************************************************)
EXTENDS Integers, Sequences, FiniteSets, TLC

(***************************************************************************)
(* Python string primitives used by the source.                            *)
(***************************************************************************)
LowerChars == <<"a", "b", "c", "d", "e", "f", "g", "h", "i", "j", "k", "l", "m", "n", "o", "p", "q", "r", "s", "t", "u", "v", "w", "x", "y", "z">>

UpperChars == <<"A", "B", "C", "D", "E", "F", "G", "H", "I", "J", "K", "L", "M", "N", "O", "P", "Q", "R", "S", "T", "U", "V", "W", "X", "Y", "Z">>

DigitChars == <<"0", "1", "2", "3", "4", "5", "6", "7", "8", "9">>

IsLower(c) == \E i \in 1..26 : LowerChars[i] = c

IsUpper(c) == \E i \in 1..26 : UpperChars[i] = c

IsDigit(c) == \E i \in 1..10 : DigitChars[i] = c

\* \w of the re module, restricted to ASCII
IsWordChar(c) == IsLower(c) \/ IsUpper(c) \/ IsDigit(c) \/ c = "_"

ToUpper(c) == IF IsLower(c) THEN UpperChars[CHOOSE i \in 1..26 : LowerChars[i] = c] ELSE c

ToLower(c) == IF IsUpper(c) THEN LowerChars[CHOOSE i \in 1..26 : UpperChars[i] = c] ELSE c

\* str.lower()
StrLower(s) == [i \in 1..Len(s) |-> ToLower(s[i])]

\* sub in s
Contains(s, sub) ==
    \E i \in 0..(Len(s) - Len(sub)) : SubSeq(s, i + 1, i + Len(sub)) = sub

\* s.endswith(suf)
EndsWith(s, suf) ==
    /\ Len(suf) <= Len(s)
    /\ SubSeq(s, Len(s) - Len(suf) + 1, Len(s)) = suf

\* s.replace(old, new) for a one-character old
RECURSIVE Replace(_, _, _)
Replace(s, old, new) ==
    IF s = <<>> THEN <<>>
    ELSE (IF Head(s) = old THEN new ELSE <<Head(s)>>) \o Replace(Tail(s), old, new)

\* s.split(sep) for a one-character sep: the list of the pieces
RECURSIVE Split(_, _)
Split(s, sep) ==
    IF \A i \in 1..Len(s) : s[i] # sep THEN <<s>>
    ELSE LET k == CHOOSE i \in 1..Len(s) :
                      s[i] = sep /\ \A j \in 1..(i - 1) : s[j] # sep
         IN  <<SubSeq(s, 1, k - 1)>> \o Split(SubSeq(s, k + 1, Len(s)), sep)

\* s.rsplit(sep, 1) for a one-character sep
RSplit1(s, sep) ==
    IF \A i \in 1..Len(s) : s[i] # sep THEN <<s>>
    ELSE LET k == CHOOSE i \in 1..Len(s) :
                      s[i] = sep /\ \A j \in (i + 1)..Len(s) : s[j] # sep
         IN  <<SubSeq(s, 1, k - 1), SubSeq(s, k + 1, Len(s))>>

\* sep.join(parts)
RECURSIVE Join(_, _)
Join(parts, sep) ==
    IF parts = <<>> THEN <<>>
    ELSE IF Len(parts) = 1 THEN parts[1]
    ELSE parts[1] \o sep \o Join(Tail(parts), sep)

\* "".join(parts)
RECURSIVE Concat(_)
Concat(parts) == IF parts = <<>> THEN <<>> ELSE Head(parts) \o Concat(Tail(parts))

\* str.capitalize(): first character upper-cased, the rest lower-cased
Capitalize(s) ==
    [i \in 1..Len(s) |-> IF i = 1 THEN ToUpper(s[i]) ELSE ToLower(s[i])]

\* str.title(): a cased character is upper-cased when the character before it
\* is not cased (or there is none), and lower-cased otherwise
Title(s) ==
    [i \in 1..Len(s) |->
        IF i > 1 /\ (IsLower(s[i - 1]) \/ IsUpper(s[i - 1]))
        THEN ToLower(s[i])
        ELSE ToUpper(s[i])]

\* str(n) of a natural number
RECURSIVE NatStr(_)
NatStr(n) ==
    IF n < 10 THEN <<DigitChars[n + 1]>>
    ELSE NatStr(n \div 10) \o <<DigitChars[(n % 10) + 1]>>

(***************************************************************************)
(* Bounds of the model.                                                    *)
(***************************************************************************)
\* longest list of gaps in a Diff Plan
MaxGaps == 2

\* longest patch_plan in a Diff Plan
MaxPatches == 1

(***************************************************************************)
(* String literals of the source and of the inputs.                        *)
(***************************************************************************)
RUNBOOK_MD == <<"R", "U", "N", "B", "O", "O", "K", ".", "m", "d">>

LANG_JAVA == <<"j", "a", "v", "a">>

LANG_PYTHON == <<"p", "y", "t", "h", "o", "n">>

LANG_GO == <<"g", "o">>

\* a language outside the convention tables
LANG_RUST == <<"r", "u", "s", "t">>

REPO_ORDERS_ENRICHER == <<"o", "r", "d", "e", "r", "s", "-", "e", "n", "r", "i", "c", "h", "e", "r">>

REPO_BILLING == <<"b", "i", "l", "l", "i", "n", "g">>

\* a service name with two hyphens
REPO_PAYMENTS_LEDGER_API == <<"p", "a", "y", "m", "e", "n", "t", "s", "-", "l", "e", "d", "g", "e", "r", "-", "a", "p", "i">>

ARCHETYPE_KAFKA == <<"k", "a", "f", "k", "a", "-", "m", "i", "c", "r", "o", "s", "e", "r", "v", "i", "c", "e">>

PLATFORM_TEAM == <<"p", "l", "a", "t", "f", "o", "r", "m", "-", "t", "e", "a", "m">>

\* the value of the one clock read of a run (datetime.now(timezone.utc).isoformat())
TIMESTAMP_NOW == <<"T", "0">>

\* a plan identifier supplied by the plan
PLAN_ID_GIVEN == <<"d", "p", "-", "4", "2">>

\* template names used by the gaps of the input plans
TMPL_KAFKA_OTEL_JAVA == <<"k", "a", "f", "k", "a", "-", "c", "o", "n", "s", "u", "m", "e", "r", "-", "o", "t", "e", "l", "-", "j", "a", "v", "a">>

TMPL_LINEAGE_SPEC == <<"l", "i", "n", "e", "a", "g", "e", "-", "s", "p", "e", "c">>

TMPL_OPS_RUNBOOK == <<"o", "p", "s", "-", "r", "u", "n", "b", "o", "o", "k">>

TMPL_NO_SUCH == <<"n", "o", "-", "s", "u", "c", "h", "-", "t", "e", "m", "p", "l", "a", "t", "e">>

(***************************************************************************)
(* The template library under templates_path: each directory is            *)
(* {language}/{name} and holds *.tmpl files, given by their stem (the file *)
(* name without .tmpl) and their text; read_text fails on a file that is   *)
(* not readable.                                                           *)
(***************************************************************************)
COMMON == <<"c", "o", "m", "m", "o", "n">>

TemplateDirs ==
    { [lang  |-> LANG_JAVA,
       name  |-> <<"k", "a", "f", "k", "a", "-", "c", "o", "n", "s", "u", "m", "e", "r", "-", "o", "t", "e", "l">>,
       is_dir |-> TRUE,
       files |-> << [stem |-> <<"$", "{", "C", "L", "A", "S", "S", "_", "N", "A", "M", "E", "}", "O", "t", "e", "l", "I", "n", "t", "e", "r", "c", "e", "p", "t", "o", "r", ".", "j", "a", "v", "a">>,
                     body |-> <<"c", "l", "a", "s", "s", " ", "$", "{", "C", "L", "A", "S", "S", "_", "N", "A", "M", "E", "}", "O", "t", "e", "l", "I", "n", "t", "e", "r", "c", "e", "p", "t", "o", "r">>, readable |-> TRUE] >>],
      [lang  |-> <<"c", "o", "m", "m", "o", "n">>,
       name  |-> TMPL_LINEAGE_SPEC,
       is_dir |-> TRUE,
       files |-> << [stem |-> <<"$", "{", "S", "E", "R", "V", "I", "C", "E", "_", "N", "A", "M", "E", "}", ".", "y", "a", "m", "l">>,
                     body |-> <<"n", "a", "m", "e", ":", " ", "$", "{", "S", "E", "R", "V", "I", "C", "E", "_", "N", "A", "M", "E", "}">>, readable |-> TRUE] >>],
      [lang  |-> <<"c", "o", "m", "m", "o", "n">>,
       name  |-> TMPL_OPS_RUNBOOK,
       is_dir |-> TRUE,
       files |-> << [stem |-> RUNBOOK_MD,
                     body |-> <<"#", " ", "$", "{", "S", "E", "R", "V", "I", "C", "E", "_", "N", "A", "M", "E", "}", " ", "$", "{", "U", "N", "K", "N", "O", "W", "N", "}">>, readable |-> TRUE] >>],
      [lang  |-> COMMON,
       name  |-> <<"o", "t", "e", "l", "-", "c", "o", "n", "f", "i", "g">>,
       is_dir |-> TRUE,
       files |-> << [stem |-> <<"o", "t", "e", "l", ".", "p", "r", "o", "p", "e", "r", "t", "i", "e", "s">>,
                     body |-> <<"o", "t", "e", "l", ".", "s", "e", "r", "v", "i", "c", "e", ".", "n", "a", "m", "e", "=", "$", "{", "S", "E", "R", "V", "I", "C", "E", "_", "N", "A", "M", "E", "}">>, readable |-> TRUE],
                    [stem |-> <<"o", "t", "e", "l", "-", "$", "{", "M", "O", "D", "U", "L", "E", "_", "N", "A", "M", "E", "}", ".", "y", "a", "m", "l">>,
                     body |-> <<"n", "a", "m", "e", "s", "p", "a", "c", "e", ":", " ", "$", "{", "N", "A", "M", "E", "S", "P", "A", "C", "E", "}">>, readable |-> TRUE] >>],
      [lang  |-> COMMON,
       name  |-> <<"o", "t", "e", "l", "-", "b", "r", "o", "k", "e", "n">>,
       is_dir |-> TRUE,
       files |-> << [stem |-> <<"c", "o", "l", "l", "e", "c", "t", "o", "r", ".", "p", "r", "o", "p", "e", "r", "t", "i", "e", "s">>,
                     body |-> <<"s", "e", "r", "v", "i", "c", "e", "=", "$", "{", "S", "E", "R", "V", "I", "C", "E", "_", "N", "A", "M", "E", "}">>, readable |-> TRUE],
                    [stem |-> <<"c", "o", "l", "l", "e", "c", "t", "o", "r", ".", "y", "a", "m", "l">>,
                     body |-> <<>>, readable |-> FALSE] >>] }

(***************************************************************************)
(* Number formatting.  A confidence is held in thousandths (870 is 0.87).  *)
(***************************************************************************)
\* f"{c:.2f}": rounded to hundredths (half to even), two decimals
FormatFixed2(c) ==
    LET q == c \div 10
        r == c % 10
        h == IF r > 5 \/ (r = 5 /\ q % 2 = 1) THEN q + 1 ELSE q
    IN  NatStr(h \div 100) \o <<".">> \o NatStr((h % 100) \div 10) \o NatStr(h % 10)

\* f"{c:.0%}": the percentage rounded to a whole number (half to even)
FormatPercent(c) ==
    LET q == c \div 10
        r == c % 10
        h == IF r > 5 \/ (r = 5 /\ q % 2 = 1) THEN q + 1 ELSE q
    IN  NatStr(h) \o <<"%">>

\* str(c) of a float: the shortest decimal, with at least one decimal
FloatStr(c) ==
    LET f == c % 1000
        d == IF f % 100 = 0 THEN NatStr(f \div 100)
             ELSE IF f % 10 = 0 THEN NatStr(f \div 100) \o NatStr((f % 100) \div 10)
             ELSE NatStr(f \div 100) \o NatStr((f % 100) \div 10) \o NatStr(f % 10)
    IN  NatStr(c \div 1000) \o <<".">> \o d

(***************************************************************************)
(* TemplateContext (template_engine.py) and its construction               *)
(* (generate_pr.py, _build_template_context).                              *)
(***************************************************************************)
\* dict.get(key, default)
Get(d, key, default) == IF key \in DOMAIN d THEN d[key] ELSE default

_get_owner_team(repo_url) == PLATFORM_TEAM

_get_otel_version(language) ==
    IF language = LANG_JAVA THEN <<"1", ".", "3", "2", ".", "0">>
    ELSE IF language = LANG_PYTHON THEN <<"1", ".", "2", "2", ".", "0">>
    ELSE IF language = LANG_GO THEN <<"1", ".", "2", "4", ".", "0">>
    ELSE <<"1", ".", "3", "2", ".", "0">>

\* faulty variant: the name is cut at its last hyphen
Namespace_BeforeLastHyphen(repo_name) ==
    IF Contains(repo_name, <<"-">>) THEN RSplit1(repo_name, "-")[1] ELSE <<"d", "e", "f", "a", "u", "l", "t">>

\* the namespace argument of the TemplateContext constructor call
Namespace(repo_name) ==
    IF Contains(repo_name, <<"-">>) THEN Split(repo_name, "-")[1] ELSE <<"d", "e", "f", "a", "u", "l", "t">>

\* faulty variant: the template name is searched as written, without
\* lowering its case
HasKafkaGap_CaseSensitive(diff_plan) ==
    \E i \in 1..Len(Get(diff_plan, "gaps", <<>>)) :
        Contains(diff_plan.gaps[i].template, <<"k", "a", "f", "k", "a">>)

\* the loop over the gaps that sets the topics: some gap's template
\* contains "kafka", whatever the case
HasKafkaGap(diff_plan) ==
    \E i \in 1..Len(Get(diff_plan, "gaps", <<>>)) :
        Contains(StrLower(diff_plan.gaps[i].template), <<"k", "a", "f", "k", "a">>)

\* TemplateContext.__post_init__
__post_init__(c) ==
    IF c.consumer_group = <<>>
    THEN [c EXCEPT !.consumer_group = c.service_name \o <<"-", "c", "g">>]
    ELSE c

_build_template_context(diff_plan, repo_url) ==
    LET repo_name  == diff_plan.repo
        tech_stack == Get(diff_plan, "tech_stack", <<>>)
        kafka      == HasKafkaGap(diff_plan)
    IN  __post_init__(
        [service_name   |-> repo_name,
         service_urn    |-> <<"u", "r", "n", ":", "s", "v", "c", ":", "p", "r", "o", "d", ":">> \o repo_name,
         namespace      |-> Namespace(repo_name),
         input_topic    |-> IF kafka THEN repo_name \o <<"_", "i", "n", "p", "u", "t">> ELSE <<>>,
         output_topic   |-> IF kafka THEN repo_name \o <<"_", "o", "u", "t", "p", "u", "t">> ELSE <<>>,
         owner_team     |-> _get_owner_team(repo_url),
         consumer_group |-> repo_name \o <<"-", "c", "g">>,
         schema_id      |-> repo_name \o <<".", "v", "1">>,
         otel_version   |-> _get_otel_version(Get(tech_stack, "language", LANG_JAVA)),
         timestamp      |-> TIMESTAMP_NOW,
         diff_plan_id   |-> Get(diff_plan, "diff_plan_id", <<"d", "p", "-">> \o repo_name),
         confidence     |-> diff_plan.confidence,
         archetypes     |-> diff_plan.archetypes,
         language       |-> Get(tech_stack, "language", LANG_JAVA)])

\* TemplateContext.to_dict: the variable mapping, as the list of its
\* (name, value) entries; a value is a string or a list of strings
StrVal(s) == [list |-> FALSE, str |-> s, items |-> <<>>]

ListVal(l) == [list |-> TRUE, str |-> <<>>, items |-> l]

to_dict(c) ==
    << <<<<"s", "e", "r", "v", "i", "c", "e", "_", "n", "a", "m", "e">>,   StrVal(c.service_name)>>,
       <<<<"s", "e", "r", "v", "i", "c", "e", "_", "u", "r", "n">>,    StrVal(c.service_urn)>>,
       <<<<"n", "a", "m", "e", "s", "p", "a", "c", "e">>,      StrVal(c.namespace)>>,
       <<<<"i", "n", "p", "u", "t", "_", "t", "o", "p", "i", "c">>,    StrVal(c.input_topic)>>,
       <<<<"o", "u", "t", "p", "u", "t", "_", "t", "o", "p", "i", "c">>,   StrVal(c.output_topic)>>,
       <<<<"o", "w", "n", "e", "r", "_", "t", "e", "a", "m">>,     StrVal(c.owner_team)>>,
       <<<<"c", "o", "n", "s", "u", "m", "e", "r", "_", "g", "r", "o", "u", "p">>, StrVal(c.consumer_group)>>,
       <<<<"s", "c", "h", "e", "m", "a", "_", "i", "d">>,      StrVal(c.schema_id)>>,
       <<<<"o", "t", "e", "l", "_", "v", "e", "r", "s", "i", "o", "n">>,   StrVal(c.otel_version)>>,
       <<<<"t", "i", "m", "e", "s", "t", "a", "m", "p">>,      StrVal(c.timestamp)>>,
       <<<<"d", "i", "f", "f", "_", "p", "l", "a", "n", "_", "i", "d">>,   StrVal(c.diff_plan_id)>>,
       <<<<"c", "o", "n", "f", "i", "d", "e", "n", "c", "e">>,     StrVal(FloatStr(c.confidence))>>,
       <<<<"a", "r", "c", "h", "e", "t", "y", "p", "e", "s">>,     ListVal(c.archetypes)>>,
       <<<<"l", "a", "n", "g", "u", "a", "g", "e">>,       StrVal(c.language)>>,
       <<<<"S", "E", "R", "V", "I", "C", "E", "_", "N", "A", "M", "E">>,   StrVal(c.service_name)>>,
       <<<<"S", "E", "R", "V", "I", "C", "E", "_", "U", "R", "N">>,    StrVal(c.service_urn)>>,
       <<<<"N", "A", "M", "E", "S", "P", "A", "C", "E">>,      StrVal(c.namespace)>>,
       <<<<"I", "N", "P", "U", "T", "_", "T", "O", "P", "I", "C">>,    StrVal(c.input_topic)>>,
       <<<<"O", "U", "T", "P", "U", "T", "_", "T", "O", "P", "I", "C">>,   StrVal(c.output_topic)>>,
       <<<<"O", "W", "N", "E", "R", "_", "T", "E", "A", "M">>,     StrVal(c.owner_team)>>,
       <<<<"C", "O", "N", "S", "U", "M", "E", "R", "_", "G", "R", "O", "U", "P">>, StrVal(c.consumer_group)>>,
       <<<<"S", "C", "H", "E", "M", "A", "_", "I", "D">>,      StrVal(c.schema_id)>>,
       <<<<"O", "T", "E", "L", "_", "V", "E", "R", "S", "I", "O", "N">>,   StrVal(c.otel_version)>>,
       <<<<"T", "I", "M", "E", "S", "T", "A", "M", "P">>,      StrVal(c.timestamp)>>,
       <<<<"D", "I", "F", "F", "_", "P", "L", "A", "N", "_", "I", "D">>,   StrVal(c.diff_plan_id)>>,
       <<<<"C", "O", "N", "F", "I", "D", "E", "N", "C", "E">>,     StrVal(FormatPercent(c.confidence))>>,
       <<<<"A", "R", "C", "H", "E", "T", "Y", "P", "E", "S">>,     StrVal(Join(c.archetypes, <<",", " ">>))>>,
       <<<<"L", "A", "N", "G", "U", "A", "G", "E">>,       StrVal(c.language)>>,
       <<<<"P", "A", "C", "K", "A", "G", "E", "_", "N", "A", "M", "E">>,   StrVal(Replace(c.service_name, "-", <<".">>))>>,
       <<<<"C", "L", "A", "S", "S", "_", "N", "A", "M", "E">>,
         StrVal(Concat([i \in 1..Len(Split(c.service_name, "-")) |->
                           Capitalize(Split(c.service_name, "-")[i])]))>>,
       <<<<"M", "O", "D", "U", "L", "E", "_", "N", "A", "M", "E">>,    StrVal(Replace(c.service_name, "-", <<"_">>))>> >>

(***************************************************************************)
(* TemplateEngine._interpolate: re.sub of \$\{(\w+)\} over the text.       *)
(***************************************************************************)
HasVar(variables, name) == \E i \in 1..Len(variables) : variables[i][1] = name

VarValue(variables, name) ==
    variables[CHOOSE i \in 1..Len(variables) : variables[i][1] = name][2]

\* the number of word characters of s from position i on
RECURSIVE WordRun(_, _)
WordRun(s, i) ==
    IF i <= Len(s) /\ IsWordChar(s[i]) THEN 1 + WordRun(s, i + 1) ELSE 0

\* the pattern matches at position i of s
MatchesAt(s, i) ==
    /\ i + 3 <= Len(s)
    /\ s[i] = "$"
    /\ s[i + 1] = "{"
    /\ WordRun(s, i + 2) >= 1
    /\ i + 2 + WordRun(s, i + 2) <= Len(s)
    /\ s[i + 2 + WordRun(s, i + 2)] = "}"

\* faulty variant: a name that is not in the mapping is replaced by nothing
replace_var_EmptyForUnknown(var_name, variables) ==
    IF HasVar(variables, var_name)
    THEN LET value == VarValue(variables, var_name)
         IN  IF value.list THEN Join(value.items, <<",", " ">>) ELSE value.str
    ELSE <<>>

\* replace_var: the replacement of one match
replace_var(var_name, variables) ==
    IF HasVar(variables, var_name)
    THEN LET value == VarValue(variables, var_name)
         IN  IF value.list THEN Join(value.items, <<",", " ">>) ELSE value.str
    ELSE <<"$", "{">> \o var_name \o <<"}">>

RECURSIVE InterpolateFrom(_, _, _)
\* faulty variant: a name after a bare "$" is taken for a placeholder too
InterpolateFrom_BareDollar(s, i, variables) ==
    IF i > Len(s) THEN <<>>
    ELSE IF MatchesAt(s, i)
    THEN LET n == WordRun(s, i + 2)
         IN  replace_var(SubSeq(s, i + 2, i + 1 + n), variables)
                 \o InterpolateFrom(s, i + 3 + n, variables)
    ELSE IF s[i] = "$" /\ WordRun(s, i + 1) >= 1
    THEN LET n == WordRun(s, i + 1)
         IN  replace_var(SubSeq(s, i + 1, i + n), variables)
                 \o InterpolateFrom(s, i + 1 + n, variables)
    ELSE <<s[i]>> \o InterpolateFrom(s, i + 1, variables)

InterpolateFrom(s, i, variables) ==
    IF i > Len(s) THEN <<>>
    ELSE IF MatchesAt(s, i)
    THEN LET n == WordRun(s, i + 2)
         IN  replace_var(SubSeq(s, i + 2, i + 1 + n), variables)
                 \o InterpolateFrom(s, i + 3 + n, variables)
    ELSE <<s[i]>> \o InterpolateFrom(s, i + 1, variables)

_interpolate(template, variables) == InterpolateFrom(template, 1, variables)

(***************************************************************************)
(* TemplateEngine (template_engine.py).                                    *)
(***************************************************************************)
\* the entries of the library at the path {lang}/{name}
DirAt(library, lang, name) == {d \in library : d.lang = lang /\ d.name = name}

\* faulty variant: the scan of the language directories comes before the
\* {language}/{base} path
FindTemplateDir_ScanFirst(library, template_name) ==
    LET parts    == RSplit1(template_name, "-")
        langPath == IF Len(parts) = 2 THEN DirAt(library, parts[2], parts[1]) ELSE {}
        direct   == {d \in library : d.is_dir /\ d.name = template_name}
        common   == DirAt(library, COMMON, template_name)
    IN  IF direct # {} THEN direct
        ELSE IF langPath # {} THEN langPath
        ELSE common

\* _find_template_dir over the library under templates_path: the set of the
\* entries it may return (iterdir gives no order); the empty set stands for
\* None. exists() holds of a file as of a directory, is_dir() of a directory
\* only
FindTemplateDir(library, template_name) ==
    LET parts    == RSplit1(template_name, "-")
        langPath == IF Len(parts) = 2 THEN DirAt(library, parts[2], parts[1]) ELSE {}
        direct   == {d \in library : d.is_dir /\ d.name = template_name}
        common   == DirAt(library, COMMON, template_name)
    IN  IF langPath # {} THEN langPath
        ELSE IF direct # {} THEN direct
        ELSE common

\* _find_template_dir of the engine of the agent, whose library is fixed
_find_template_dir(template_name) == FindTemplateDir(TemplateDirs, template_name)

\* source_dirs.get(lang, 'src')
SourceDir(context) ==
    IF context.language = LANG_JAVA
    THEN <<"s", "r", "c", "/", "m", "a", "i", "n", "/", "j", "a", "v", "a", "/", "c", "o", "m", "/", "c", "o", "m", "p", "a", "n", "y", "/">> \o Replace(context.service_name, "-", <<"/">>)
    ELSE IF context.language = LANG_PYTHON
    THEN <<"s", "r", "c", "/">> \o Replace(context.service_name, "-", <<"_">>)
    ELSE IF context.language = LANG_GO
    THEN <<"i", "n", "t", "e", "r", "n", "a", "l", "/", "o", "b", "s", "e", "r", "v", "a", "b", "i", "l", "i", "t", "y">>
    ELSE <<"s", "r", "c">>

_get_output_path(template_name, output_name, context) ==
    IF \/ EndsWith(output_name, <<".", "j", "a", "v", "a">>)
       \/ EndsWith(output_name, <<".", "p", "y">>)
       \/ EndsWith(output_name, <<".", "g", "o">>)
    THEN SourceDir(context) \o <<"/">> \o output_name
    ELSE IF EndsWith(output_name, <<".", "y", "a", "m", "l">>) \/ EndsWith(output_name, <<".", "y", "m", "l">>)
    THEN IF Contains(template_name, <<"l", "i", "n", "e", "a", "g", "e">>)
         THEN <<"l", "i", "n", "e", "a", "g", "e", "/">> \o output_name
         ELSE IF Contains(template_name, <<"c", "o", "n", "t", "r", "a", "c", "t">>)
         THEN <<"c", "o", "n", "t", "r", "a", "c", "t", "s", "/">> \o output_name
         ELSE <<"s", "r", "c", "/", "m", "a", "i", "n", "/", "r", "e", "s", "o", "u", "r", "c", "e", "s", "/">> \o output_name
    ELSE output_name

\* d[key] = value on a dict held as the list of its (key, value) items, in
\* insertion order: an existing key keeps its place and takes the new value
DictSet(d, key, value) ==
    IF \E i \in 1..Len(d) : d[i][1] = key
    THEN [i \in 1..Len(d) |-> IF d[i][1] = key THEN <<key, value>> ELSE d[i]]
    ELSE Append(d, <<key, value>>)

\* the loop of render_template over the *.tmpl files of the directory
RECURSIVE RenderFiles(_, _, _, _)
RenderFiles(files, template_name, context, rendered_files) ==
    IF files = <<>> THEN rendered_files
    ELSE LET variables        == to_dict(context)
             output_name      == _interpolate(Head(files).stem, variables)
             rendered_content == _interpolate(Head(files).body, variables)
             output_path      == _get_output_path(template_name, output_name, context)
         IN  RenderFiles(Tail(files), template_name, context,
                         DictSet(rendered_files, output_path, rendered_content))

\* render_template: raised is the ValueError "Template not found" or the
\* error of read_text on a file of the directory; the files rendered before
\* the error are lost with the dict they were put in
render_template(template_name, context) ==
    LET dirs == _find_template_dir(template_name)
    IN  IF dirs = {}
        THEN [raised |-> TRUE, files |-> <<>>]
        ELSE LET template_dir == CHOOSE d \in dirs : TRUE
             IN  IF \E i \in 1..Len(template_dir.files) : ~template_dir.files[i].readable
                 THEN [raised |-> TRUE, files |-> <<>>]
                 ELSE [raised |-> FALSE,
                       files  |-> RenderFiles(template_dir.files, template_name,
                                              context, <<>>)]

\* the built-in templates, each by the line of its text that names the
\* artifact; "" for a type that has none
_get_builtin_template(template_type) ==
    IF template_type = <<"r", "u", "n", "b", "o", "o", "k">> THEN <<"#", " ", "$", "{", "S", "E", "R", "V", "I", "C", "E", "_", "N", "A", "M", "E", "}", " ", "R", "u", "n", "b", "o", "o", "k">>
    ELSE IF template_type = <<"l", "i", "n", "e", "a", "g", "e", "-", "s", "p", "e", "c">>
    THEN <<"#", " ", "L", "i", "n", "e", "a", "g", "e", " ", "S", "p", "e", "c", "i", "f", "i", "c", "a", "t", "i", "o", "n", " ", "f", "o", "r", " ", "$", "{", "S", "E", "R", "V", "I", "C", "E", "_", "N", "A", "M", "E", "}">>
    ELSE IF template_type = <<"c", "o", "n", "t", "r", "a", "c", "t", "-", "s", "t", "u", "b">>
    THEN <<"#", " ", "D", "a", "t", "a", " ", "C", "o", "n", "t", "r", "a", "c", "t", " ", "f", "o", "r", " ", "$", "{", "S", "E", "R", "V", "I", "C", "E", "_", "N", "A", "M", "E", "}">>
    ELSE IF template_type = <<"t", "e", "l", "e", "m", "e", "t", "r", "y", "-", "t", "e", "s", "t", "-", "j", "a", "v", "a">>
    THEN <<"c", "l", "a", "s", "s", " ", "$", "{", "C", "L", "A", "S", "S", "_", "N", "A", "M", "E", "}", "O", "t", "e", "l", "I", "n", "t", "e", "r", "c", "e", "p", "t", "o", "r", "T", "e", "s", "t", " ", "{">>
    ELSE IF template_type = <<"t", "e", "l", "e", "m", "e", "t", "r", "y", "-", "t", "e", "s", "t", "-", "p", "y", "t", "h", "o", "n">>
    THEN <<"T", "e", "l", "e", "m", "e", "t", "r", "y", " ", "v", "a", "l", "i", "d", "a", "t", "i", "o", "n", " ", "t", "e", "s", "t", "s", " ", "f", "o", "r", " ", "$", "{", "S", "E", "R", "V", "I", "C", "E", "_", "N", "A", "M", "E", "}", ".">>
    ELSE IF template_type = <<"t", "e", "l", "e", "m", "e", "t", "r", "y", "-", "t", "e", "s", "t", "-", "g", "o">>
    THEN <<"t", "e", "s", "t", "S", "e", "r", "v", "i", "c", "e", " ", "=", " ", "\"", "$", "{", "S", "E", "R", "V", "I", "C", "E", "_", "N", "A", "M", "E", "}", "\"">>
    ELSE <<>>

render_runbook(context) ==
    _interpolate(_get_builtin_template(<<"r", "u", "n", "b", "o", "o", "k">>), to_dict(context))

render_lineage_spec(context) ==
    _interpolate(_get_builtin_template(<<"l", "i", "n", "e", "a", "g", "e", "-", "s", "p", "e", "c">>), to_dict(context))

render_contract_stub(context) ==
    _interpolate(_get_builtin_template(<<"c", "o", "n", "t", "r", "a", "c", "t", "-", "s", "t", "u", "b">>), to_dict(context))

render_telemetry_test(context) ==
    LET template_key == <<"t", "e", "l", "e", "m", "e", "t", "r", "y", "-", "t", "e", "s", "t", "-">> \o context.language
        template     == _get_builtin_template(template_key)
    IN  _interpolate(IF template = <<>>
                     THEN _get_builtin_template(<<"t", "e", "l", "e", "m", "e", "t", "r", "y", "-", "t", "e", "s", "t", "-", "j", "a", "v", "a">>)
                     ELSE template,
                     to_dict(context))

(***************************************************************************)
(* PRAuthorAgent._generate_artifacts and _get_test_path (generate_pr.py).  *)
(***************************************************************************)
\* the template of an artifact that has none (Python's None)
None == <<"None">>

GeneratedArtifact(file_path, content, action, template) ==
    [file_path |-> file_path, content |-> content,
     action |-> action, template |-> template]

\* the artifacts of the rendered files of one gap's template, in dict order
RenderedArtifacts(rendered_files, template_name) ==
    [i \in 1..Len(rendered_files) |->
        GeneratedArtifact(rendered_files[i][1], rendered_files[i][2],
                          "create", template_name)]

\* faulty variant: the first gap whose template fails ends the loop
GapArtifacts_AbortsOnFailure(gaps, context) ==
    LET fails(i) == /\ gaps[i].template # <<>>
                    /\ render_template(gaps[i].template, context).raised
        upto == IF \E i \in 1..Len(gaps) : fails(i)
                THEN (CHOOSE i \in 1..Len(gaps) :
                         fails(i) /\ \A j \in 1..(i - 1) : ~fails(j)) - 1
                ELSE Len(gaps)
        f[n \in 0..upto] ==
            IF n = 0 THEN <<>>
            ELSE f[n - 1] \o
                 (IF gaps[n].template = <<>> THEN <<>>
                  ELSE RenderedArtifacts(render_template(gaps[n].template, context).files,
                                         gaps[n].template))
    IN  f[upto]

\* faulty variant: the files are turned into artifacts one by one as they
\* are rendered, so those rendered before a failure stay in the list
GapArtifacts_KeepsRenderedFiles(gaps, context) ==
    LET partial(name) ==
            LET dirs  == _find_template_dir(name)
                files == IF dirs = {} THEN <<>> ELSE (CHOOSE d \in dirs : TRUE).files
                upto  == IF \E i \in 1..Len(files) : ~files[i].readable
                         THEN (CHOOSE i \in 1..Len(files) :
                                  /\ ~files[i].readable
                                  /\ \A j \in 1..(i - 1) : files[j].readable) - 1
                         ELSE Len(files)
            IN  RenderFiles(SubSeq(files, 1, upto), name, context, <<>>)
        f[n \in 0..Len(gaps)] ==
            IF n = 0 THEN <<>>
            ELSE f[n - 1] \o
                 (IF gaps[n].template = <<>> THEN <<>>
                  ELSE RenderedArtifacts(partial(gaps[n].template), gaps[n].template))
    IN  f[Len(gaps)]

\* the loop over the gaps: a gap without template is passed over, and so is
\* one whose render_template raises (the except clause)
RECURSIVE GapArtifacts(_, _)
GapArtifacts(gaps, context) ==
    IF gaps = <<>> THEN <<>>
    ELSE LET template_name == Head(gaps).template
             rendered      == render_template(template_name, context)
             mine == IF template_name = <<>> \/ rendered.raised THEN <<>>
                     ELSE RenderedArtifacts(rendered.files, template_name)
         IN  mine \o GapArtifacts(Tail(gaps), context)

\* the loop over the patch plan
PatchArtifacts(patch_plan) ==
    [i \in 1..Len(patch_plan) |->
        GeneratedArtifact(patch_plan[i].file, Get(patch_plan[i], "content", <<>>),
                          patch_plan[i].action, None)]

HasPath(artifacts, path) ==
    \E i \in 1..Len(artifacts) : artifacts[i].file_path = path

HasGapType(diff_plan, types) ==
    \E i \in 1..Len(Get(diff_plan, "gaps", <<>>)) : diff_plan.gaps[i].type \in types

_get_test_path(context) ==
    LET lang         == context.language
        service_name == context.service_name
    IN  IF lang = LANG_JAVA
        THEN <<"s", "r", "c", "/", "t", "e", "s", "t", "/", "j", "a", "v", "a", "/", "c", "o", "m", "/", "c", "o", "m", "p", "a", "n", "y", "/">> \o Replace(service_name, "-", <<"/">>)
                 \o <<"/", "o", "t", "e", "l", "/">> \o Title(Replace(context.service_name, "-", <<>>))
                 \o <<"O", "t", "e", "l", "I", "n", "t", "e", "r", "c", "e", "p", "t", "o", "r", "T", "e", "s", "t", ".", "j", "a", "v", "a">>
        ELSE IF lang = LANG_PYTHON
        THEN <<"t", "e", "s", "t", "s", "/", "t", "e", "s", "t", "_", "o", "t", "e", "l", "_">> \o Replace(service_name, "-", <<"_">>) \o <<".", "p", "y">>
        ELSE IF lang = LANG_GO
        THEN <<"i", "n", "t", "e", "r", "n", "a", "l", "/", "o", "b", "s", "e", "r", "v", "a", "b", "i", "l", "i", "t", "y", "/", "o", "t", "e", "l", "_", "t", "e", "s", "t", ".", "g", "o">>
        ELSE <<"t", "e", "s", "t", "s", "/", "t", "e", "s", "t", "_", "t", "e", "l", "e", "m", "e", "t", "r", "y", ".">> \o lang

\* faulty variant: the runbook is generated without looking at the artifacts
RunbookArtifacts_Always(artifacts, context) ==
    <<GeneratedArtifact(RUNBOOK_MD, render_runbook(context), "create",
                        <<"r", "u", "n", "b", "o", "o", "k">>)>>

\* "Always generate runbook if missing"
RunbookArtifacts(artifacts, context) ==
    IF ~HasPath(artifacts, RUNBOOK_MD)
    THEN <<GeneratedArtifact(RUNBOOK_MD, render_runbook(context), "create", <<"r", "u", "n", "b", "o", "o", "k">>)>>
    ELSE <<>>

\* "Generate lineage spec if missing"
LineageArtifacts(diff_plan, context) ==
    IF HasGapType(diff_plan, {"missing_lineage_spec"})
    THEN <<GeneratedArtifact(<<"l", "i", "n", "e", "a", "g", "e", "/">> \o context.service_name \o <<".", "y", "a", "m", "l">>,
                             render_lineage_spec(context), "create", <<"l", "i", "n", "e", "a", "g", "e", "-", "s", "p", "e", "c">>)>>
    ELSE <<>>

\* "Generate data contract if missing"
ContractArtifacts(diff_plan, context) ==
    IF HasGapType(diff_plan, {"missing_contract"})
    THEN <<GeneratedArtifact(<<"c", "o", "n", "t", "r", "a", "c", "t", "s", "/">> \o context.service_name \o <<".", "y", "a", "m", "l">>,
                             render_contract_stub(context), "create", <<"c", "o", "n", "t", "r", "a", "c", "t", "-", "s", "t", "u", "b">>)>>
    ELSE <<>>

\* faulty variant: a missing_correlation gap alone gives no test
TelemetryTestArtifacts_OtelOnly(diff_plan, context) ==
    IF HasGapType(diff_plan, {"missing_otel"})
    THEN <<GeneratedArtifact(_get_test_path(context), render_telemetry_test(context),
                             "create",
                             <<"t", "e", "l", "e", "m", "e", "t", "r", "y", "-", "t", "e", "s", "t">>)>>
    ELSE <<>>

\* "Generate telemetry validation tests"
TelemetryTestArtifacts(diff_plan, context) ==
    IF HasGapType(diff_plan, {"missing_otel", "missing_correlation"})
    THEN <<GeneratedArtifact(_get_test_path(context), render_telemetry_test(context),
                             "create", <<"t", "e", "l", "e", "m", "e", "t", "r", "y", "-", "t", "e", "s", "t">>)>>
    ELSE <<>>

\* faulty variant: the patch instructions are processed before the gaps
_generate_artifacts_PatchesFirst(diff_plan, context) ==
    LET fromPlan == PatchArtifacts(Get(diff_plan, "patch_plan", <<>>))
                        \o GapArtifacts(Get(diff_plan, "gaps", <<>>), context)
    IN  fromPlan
            \o RunbookArtifacts(fromPlan, context)
            \o LineageArtifacts(diff_plan, context)
            \o ContractArtifacts(diff_plan, context)
            \o TelemetryTestArtifacts(diff_plan, context)

_generate_artifacts(diff_plan, context) ==
    LET fromPlan == GapArtifacts(Get(diff_plan, "gaps", <<>>), context)
                        \o PatchArtifacts(Get(diff_plan, "patch_plan", <<>>))
    IN  fromPlan
            \o RunbookArtifacts(fromPlan, context)
            \o LineageArtifacts(diff_plan, context)
            \o ContractArtifacts(diff_plan, context)
            \o TelemetryTestArtifacts(diff_plan, context)

(***************************************************************************)
(* PRAuthorAgent._generate_pr_description: the text, by its variable       *)
(* parts in the order they appear (the rest of the text is fixed).         *)
(***************************************************************************)
_generate_pr_description(diff_plan, artifacts, context) ==
    [archetypes     |-> Join(context.archetypes, <<",", " ">>),
     confidence     |-> FormatPercent(context.confidence),
     diff_plan_id   |-> context.diff_plan_id,
     changes_list   |-> [i \in 1..Len(artifacts) |->
                            <<artifacts[i].file_path, artifacts[i].action>>],
     gaps_list      |-> [i \in 1..Len(Get(diff_plan, "gaps", <<>>)) |->
                            <<diff_plan.gaps[i].priority, diff_plan.gaps[i].type,
                              diff_plan.gaps[i].description>>],
     files_list     |-> [i \in 1..Len(artifacts) |->
                            <<artifacts[i].file_path, artifacts[i].action,
                              IF artifacts[i].template \in {None, <<>>}
                              THEN <<"p", "a", "t", "c", "h">> ELSE artifacts[i].template>>],
     scan_timestamp |-> Get(diff_plan, "scan_timestamp", <<"N", "/", "A">>),
     timestamp      |-> context.timestamp]

(***************************************************************************)
(* The inputs: configurations and Diff Plans.                              *)
(***************************************************************************)
\* PRAuthorConfig.confidence_threshold, in thousandths
confidence_threshold == 700

branch_prefix == <<"a", "u", "t", "o", "p", "i", "l", "o", "t", "/", "o", "b", "s", "e", "r", "v", "a", "b", "i", "l", "i", "t", "y">>

default_branch == <<"m", "a", "i", "n">>

pr_labels == <<<<"a", "u", "t", "o", "p", "i", "l", "o", "t">>, <<"o", "b", "s", "e", "r", "v", "a", "b", "i", "l", "i", "t", "y">>>>

\* int(datetime.now().timestamp()) as read by _create_pull_request
branch_timestamp == 1767225600

Configs ==
    [confidence_threshold : {confidence_threshold}, auto_create_pr : BOOLEAN]

Repos == {REPO_ORDERS_ENRICHER, REPO_BILLING, REPO_PAYMENTS_LEDGER_API}

Languages == {LANG_JAVA, LANG_PYTHON, LANG_GO, LANG_RUST}

\* the (repository, language) pairs of the plans
RepoLanguages ==
    ({REPO_ORDERS_ENRICHER} \X Languages) \cup {<<REPO_BILLING, LANG_JAVA>>}

\* confidences just below, at and above the threshold
Confidences == {699, 700, 870}

GapChoices ==
    { [type |-> "missing_otel", priority |-> "P1", description |-> "no spans",
       template |-> TMPL_KAFKA_OTEL_JAVA],
      [type |-> "missing_correlation", priority |-> "P2",
       description |-> "no correlation headers", template |-> TMPL_OPS_RUNBOOK],
      [type |-> "missing_lineage_spec", priority |-> "P2",
       description |-> "no lineage spec", template |-> TMPL_LINEAGE_SPEC],
      [type |-> "missing_lineage_spec", priority |-> "P3",
       description |-> "no lineage spec", template |-> <<>>],
      [type |-> "missing_contract", priority |-> "P3",
       description |-> "no data contract", template |-> TMPL_NO_SUCH] }

\* a gap whose template name holds "Kafka" in mixed case
MixedCaseKafkaGap ==
    [type |-> "missing_otel", priority |-> "P1", description |-> "no spans",
     template |-> <<"K", "a", "f", "k", "a", "-", "P", "r", "o", "d", "u", "c", "e", "r", "-", "O", "T", "E", "L">>]

\* two gaps whose templates hold two files each: every file of the first
\* is readable, the second file of the second is not
MultiFileGaps ==
    << [type |-> "missing_correlation", priority |-> "P2",
        description |-> "no collector configuration", template |-> <<"o", "t", "e", "l", "-", "c", "o", "n", "f", "i", "g">>],
       [type |-> "missing_correlation", priority |-> "P2",
        description |-> "no collector configuration", template |-> <<"o", "t", "e", "l", "-", "b", "r", "o", "k", "e", "n">>] >>

PatchChoices ==
    { [file |-> RUNBOOK_MD, action |-> "modify", content |-> <<"o", "p", "s">>],
      [file |-> <<"l", "i", "n", "e", "a", "g", "e", "/", "o", "r", "d", "e", "r", "s", "-", "e", "n", "r", "i", "c", "h", "e", "r", ".", "y", "a", "m", "l">>, action |-> "merge"] }

SeqsUpTo(S, n) == UNION {[1..k -> S] : k \in 0..n}

required_fields == {"repo", "archetypes", "confidence", "tech_stack", "gaps"}

\* a plan that carries every required field
Plan(r, l, c, g, p) ==
    [repo |-> r, archetypes |-> <<ARCHETYPE_KAFKA>>, confidence |-> c,
     tech_stack |-> [language |-> l], gaps |-> g, patch_plan |-> p]

\* without patch_plan, with or without a diff_plan_id of its own
SmallPlans(r, withId) ==
    { IF withId
      THEN [repo |-> r, archetypes |-> <<ARCHETYPE_KAFKA>>, confidence |-> c,
            tech_stack |-> [language |-> LANG_JAVA], gaps |-> g,
            diff_plan_id |-> PLAN_ID_GIVEN]
      ELSE [repo |-> r, archetypes |-> <<ARCHETYPE_KAFKA>>, confidence |-> c,
            tech_stack |-> [language |-> LANG_JAVA], gaps |-> g]
        : c \in Confidences, g \in SeqsUpTo(GapChoices, 1) }

\* the plans that pass validation: above the threshold, every combination
\* of gaps and patches for the Java service and every combination of at most
\* two gaps and one patch for each repository and language; the small
\* plans at every confidence; and plans with the mixed-case Kafka gap and
\* with the gaps of the two-file templates
WellFormedPlans ==
    { Plan(REPO_ORDERS_ENRICHER, LANG_JAVA, 870, g, p)
        : g \in SeqsUpTo(GapChoices, MaxGaps), p \in SeqsUpTo(PatchChoices, MaxPatches) }
    \cup { Plan(rl[1], rl[2], 870, g, p)
             : rl \in RepoLanguages,
               g \in SeqsUpTo(GapChoices, 2), p \in SeqsUpTo(PatchChoices, 1) }
    \cup UNION { SmallPlans(r, withId) : r \in Repos, withId \in BOOLEAN }
    \cup { Plan(REPO_ORDERS_ENRICHER, LANG_JAVA, 870, g, <<>>)
             : g \in { <<MixedCaseKafkaGap>>,
                       <<CHOOSE c \in GapChoices : c.template = TMPL_LINEAGE_SPEC,
                         MixedCaseKafkaGap>>,
                       <<MixedCaseKafkaGap,
                         CHOOSE c \in GapChoices : c.template = TMPL_KAFKA_OTEL_JAVA>>,
                       <<MultiFileGaps[1]>>,
                       <<MultiFileGaps[2]>>,
                       <<MultiFileGaps[1], MultiFileGaps[2]>>,
                       <<MultiFileGaps[2], MultiFileGaps[1]>> } }

\* plans that lack one required field, or whose archetypes are empty
MalformedPlans ==
    LET base == SmallPlans(REPO_ORDERS_ENRICHER, FALSE)
    IN  { [k \in (DOMAIN b) \ {f} |-> b[k]] : b \in base, f \in required_fields }
        \cup { [b EXCEPT !.archetypes = <<>>] : b \in base }

DiffPlans == WellFormedPlans \cup MalformedPlans

(***************************************************************************)
(* The state of one run of PRAuthorAgent.process_diff_plan, and of the     *)
(* version-control backend the agent's gateway talks to.                   *)
(***************************************************************************)
VARIABLES
    config,          \* self.config
    pc,              \* the position of the run in process_diff_plan
    diff_plan,       \* the arguments of the call
    dry_run,
    context,         \* the locals of process_diff_plan
    artifacts,
    pr_description,
    branch_name,     \* the local of _create_pull_request
    result,          \* the value returned, once returned
    raised,          \* the exception that left process_diff_plan, if one did
    steps,           \* the steps executed so far, in order
    calls,           \* the gateway operations invoked so far, in order
    vcs,             \* the backend: its branches, commits and change requests
    tpl_tokens,      \* a template text handed to _interpolate, by its pieces
    tpl_variables,   \* the variable mapping handed to _interpolate with it
    tpl_outputs,     \* what _interpolate returned: for the text, then for its own output
    tpl_library,     \* the directories under templates_path
    tpl_name,        \* the template name looked up
    tpl_dir,         \* what _find_template_dir returned, once it has
    backend,         \* the gateway client in use: GitHubClient or GitLabClient
    operation,       \* the gateway operation in progress and its arguments
    op_pc,           \* the request the operation is at
    op_index,        \* the loop variable of the operation (a file, a location)
    op_items,        \* tree_items (GitHub) or actions (GitLab) collected so far
    op_result,       \* what the operation returned or raised, once it has
    attempt,         \* the loop variable of _request
    requests,        \* the HTTP requests the current _request call has issued
    sleeps,          \* the time.sleep calls of the current _request call
    last_call,       \* how the last _request call that ended did end
    remote,          \* the repository on the server
    now,             \* the wall clock the runs of a host read, in half seconds
    runs             \* several agents publishing to one backend, each by its position

\* the state of a run of process_diff_plan
agent_vars == <<config, pc, diff_plan, dry_run, context, artifacts, pr_description,
                branch_name, result, raised, steps, calls, vcs>>

\* the state of a use of the template engine on its own
engine_vars == <<tpl_tokens, tpl_variables, tpl_outputs, tpl_library, tpl_name, tpl_dir>>

\* the state of a gateway operation on its own, and of the server
gateway_vars == <<backend, operation, op_pc, op_index, op_items, op_result,
                  attempt, requests, sleeps, last_call, remote>>

\* the state of several runs side by side, and of the clock they read
fleet_vars == <<now, runs>>

vars == <<agent_vars, engine_vars, gateway_vars, fleet_vars>>

\* no second run is under way
FleetIdle ==
    /\ now = 0
    /\ runs = <<>>

\* no lookup of a template directory is in progress
ResolverIdle ==
    /\ tpl_library = TemplateDirs
    /\ tpl_name = <<>>
    /\ tpl_dir = <<>>

\* no gateway operation is in progress
GatewayIdle ==
    /\ backend = "github"
    /\ operation = [name |-> "none"]
    /\ op_pc = "done"
    /\ op_index = 0
    /\ op_items = <<>>
    /\ op_result = [kind |-> "none"]
    /\ attempt = 0
    /\ requests = 0
    /\ sleeps = <<>>
    /\ last_call = [outcome |-> "none"]
    /\ remote = [head_files |-> {}, new_commits |-> 0, existing |-> {}, codeowners |-> {}]

\* a local not yet assigned, a result not yet returned
Unset == <<"unset">>

Init ==
    /\ config \in Configs
    /\ pc = "idle"
    /\ diff_plan = Unset
    /\ dry_run = FALSE
    /\ context = Unset
    /\ artifacts = Unset
    /\ pr_description = Unset
    /\ branch_name = Unset
    /\ result = Unset
    /\ raised = "none"
    /\ steps = <<>>
    /\ calls = <<>>
    /\ vcs = [branches |-> {}, commits |-> <<>>, change_requests |-> <<>>]
    /\ tpl_tokens = <<>>
    /\ tpl_variables = <<>>
    /\ tpl_outputs = <<>>
    /\ ResolverIdle
    /\ GatewayIdle
    /\ FleetIdle

\* the call process_diff_plan(diff_plan, repo_url, dry_run)
process_diff_plan(plan, dry) ==
    /\ pc = "idle"
    /\ diff_plan' = plan
    /\ dry_run' = dry
    /\ pc' = "validate"
    /\ UNCHANGED <<config, context, artifacts, pr_description, branch_name,
                   result, raised, steps, calls, vcs>>
    /\ UNCHANGED <<engine_vars, gateway_vars, fleet_vars>>

\* faulty variant: an empty list of archetypes is let through
_validate_diff_plan_NoArchetypeCheck(plan) ==
    (required_fields \ DOMAIN plan) # {}

\* _validate_diff_plan: TRUE when it raises ValueError
_validate_diff_plan(plan) ==
    LET missing == required_fields \ DOMAIN plan
    IN  missing # {} \/ plan.archetypes = <<>>

\* Step 1
Validate ==
    /\ pc = "validate"
    /\ steps' = Append(steps, "validate")
    /\ IF _validate_diff_plan(diff_plan)
       THEN /\ raised' = "ValueError"
            /\ pc' = "raised"
       ELSE /\ raised' = raised
            /\ pc' = "gate"
    /\ UNCHANGED <<config, diff_plan, dry_run, context, artifacts, pr_description,
                   branch_name, result, calls, vcs>>
    /\ UNCHANGED <<engine_vars, gateway_vars, fleet_vars>>

SkippedResult(plan, cfg) ==
    [status       |-> "skipped",
     reason       |-> <<"C", "o", "n", "f", "i", "d", "e", "n", "c", "e", " ">> \o FormatFixed2(Get(plan, "confidence", 0))
                          \o <<" ", "b", "e", "l", "o", "w", " ", "t", "h", "r", "e", "s", "h", "o", "l", "d", " ">> \o FloatStr(cfg.confidence_threshold),
     diff_plan_id |-> Get(plan, "diff_plan_id", None)]

\* faulty variant: the threshold itself is below the threshold
BelowThreshold_Inclusive(plan, cfg) ==
    Get(plan, "confidence", 0) <= cfg.confidence_threshold

\* faulty variant: the confidence is rounded to two decimals, as it is printed,
\* before it is compared
BelowThreshold_Rounded(plan, cfg) ==
    ((Get(plan, "confidence", 0) + 5) \div 10) * 10 < cfg.confidence_threshold

\* confidence < self.config.confidence_threshold
BelowThreshold(plan, cfg) == Get(plan, "confidence", 0) < cfg.confidence_threshold

\* Step 2: the confidence threshold
CheckConfidence ==
    /\ pc = "gate"
    /\ steps' = Append(steps, "gate")
    /\ IF BelowThreshold(diff_plan, config)
       THEN /\ result' = SkippedResult(diff_plan, config)
            /\ pc' = "returned"
       ELSE /\ result' = result
            /\ pc' = "context"
    /\ UNCHANGED <<config, diff_plan, dry_run, context, artifacts, pr_description,
                   branch_name, raised, calls, vcs>>
    /\ UNCHANGED <<engine_vars, gateway_vars, fleet_vars>>

\* Step 3
BuildContext ==
    /\ pc = "context"
    /\ steps' = Append(steps, "context")
    /\ context' = _build_template_context(diff_plan, <<>>)
    /\ pc' = "artifacts"
    /\ UNCHANGED <<config, diff_plan, dry_run, artifacts, pr_description,
                   branch_name, result, raised, calls, vcs>>
    /\ UNCHANGED <<engine_vars, gateway_vars, fleet_vars>>

\* faulty variant: every rendered content carries a reading of the clock at
\* the moment of generation (the number of steps run so far) instead of
\* depending on the plan and the context alone
GenerateArtifacts_ClockStamped ==
    /\ pc = "artifacts"
    /\ steps' = Append(steps, "artifacts")
    /\ artifacts' =
          LET arts == _generate_artifacts(diff_plan, context)
          IN  [i \in 1..Len(arts) |->
                 [arts[i] EXCEPT !.content = @ \o [k \in 1..Len(steps) |-> "."]]]
    /\ pc' = "describe"
    /\ UNCHANGED <<config, diff_plan, dry_run, context, pr_description,
                   branch_name, result, raised, calls, vcs>>
    /\ UNCHANGED <<engine_vars, gateway_vars, fleet_vars>>

\* Step 4
GenerateArtifacts ==
    /\ pc = "artifacts"
    /\ steps' = Append(steps, "artifacts")
    /\ artifacts' = _generate_artifacts(diff_plan, context)
    /\ pc' = "describe"
    /\ UNCHANGED <<config, diff_plan, dry_run, context, pr_description,
                   branch_name, result, raised, calls, vcs>>
    /\ UNCHANGED <<engine_vars, gateway_vars, fleet_vars>>

\* Step 5
GenerateDescription ==
    /\ pc = "describe"
    /\ steps' = Append(steps, "describe")
    /\ pr_description' = _generate_pr_description(diff_plan, artifacts, context)
    /\ pc' = "dispatch"
    /\ UNCHANGED <<config, diff_plan, dry_run, context, artifacts,
                   branch_name, result, raised, calls, vcs>>
    /\ UNCHANGED <<engine_vars, gateway_vars, fleet_vars>>

DryRunResult(plan, arts, description) ==
    [status         |-> "dry_run",
     diff_plan_id   |-> Get(plan, "diff_plan_id", None),
     artifacts      |-> [i \in 1..Len(arts) |->
                            [path |-> arts[i].file_path, action |-> arts[i].action]],
     pr_description |-> description]

\* faulty variant: the gaps are counted instead of the artifacts
ArtifactsGeneratedResult_CountsGaps(plan, arts) ==
    [status          |-> "artifacts_generated",
     diff_plan_id    |-> Get(plan, "diff_plan_id", None),
     artifacts_count |-> Len(Get(plan, "gaps", <<>>))]

ArtifactsGeneratedResult(plan, arts) ==
    [status          |-> "artifacts_generated",
     diff_plan_id    |-> Get(plan, "diff_plan_id", None),
     artifacts_count |-> Len(arts)]

\* faulty variant: auto_create_pr is looked at without regard to dry_run
Publishes_IgnoresDryRun(dry, cfg) == cfg.auto_create_pr

\* the run goes on to _create_pull_request: after "if dry_run: return",
\* "if self.config.auto_create_pr"
Publishes(dry, cfg) == ~dry /\ cfg.auto_create_pr

\* the return of a dry run
ReturnDryRun ==
    /\ pc = "dispatch"
    /\ dry_run
    /\ result' = DryRunResult(diff_plan, artifacts, pr_description)
    /\ pc' = "returned"
    /\ UNCHANGED <<config, diff_plan, dry_run, context, artifacts, pr_description,
                   branch_name, raised, steps, calls, vcs>>
    /\ UNCHANGED <<engine_vars, gateway_vars, fleet_vars>>

\* Step 6 without auto_create_pr
ReturnArtifactsGenerated ==
    /\ pc = "dispatch"
    /\ ~dry_run
    /\ ~Publishes(dry_run, config)
    /\ result' = ArtifactsGeneratedResult(diff_plan, artifacts)
    /\ pc' = "returned"
    /\ UNCHANGED <<config, diff_plan, dry_run, context, artifacts, pr_description,
                   branch_name, raised, steps, calls, vcs>>
    /\ UNCHANGED <<engine_vars, gateway_vars, fleet_vars>>

(***************************************************************************)
(* PRAuthorAgent._create_pull_request: three gateway operations in turn.   *)
(* Each either completes, with its effect on the backend, or raises (after *)
(* the gateway's own retries); what it raises leaves process_diff_plan.    *)
(***************************************************************************)
\* f"{self.config.branch_prefix}-{repo_name}-{timestamp}"
BranchNameAt(repo_name, timestamp) ==
    branch_prefix \o <<"-">> \o repo_name \o <<"-">> \o NatStr(timestamp)

BranchName(plan) == BranchNameAt(plan.repo, branch_timestamp)

\* {a.file_path: a.content for a in artifacts}
RECURSIVE FilesToCommit(_, _)
FilesToCommit(arts, files) ==
    IF arts = <<>> THEN files
    ELSE FilesToCommit(Tail(arts), DictSet(files, Head(arts).file_path, Head(arts).content))

\* the commit message, by its variable parts
CommitMessage(plan) ==
    [gap_types    |-> [i \in 1..Len(Get(plan, "gaps", <<>>)) |-> plan.gaps[i].type],
     diff_plan_id |-> Get(plan, "diff_plan_id", <<"N", "/", "A">>),
     confidence   |-> FormatPercent(plan.confidence)]

ArchetypeLabels(plan) ==
    [i \in 1..(IF Len(plan.archetypes) < 2 THEN Len(plan.archetypes) ELSE 2) |->
        <<"a", "r", "c", "h", "e", "t", "y", "p", "e", ":">> \o plan.archetypes[i]]

PrTitle(plan) ==
    <<"f", "e", "a", "t", "(", "o", "b", "s", "e", "r", "v", "a", "b", "i", "l", "i", "t", "y", ")", ":", " ", "A", "d", "d", " ">>
        \o Join(SubSeq(plan.archetypes, 1,
                       IF Len(plan.archetypes) < 2 THEN Len(plan.archetypes) ELSE 2),
                <<",", " ">>)
        \o <<" ", "i", "n", "s", "t", "r", "u", "m", "e", "n", "t", "a", "t", "i", "o", "n">>

\* the change request the backend records
ChangeRequest(plan, description, branch) ==
    [title  |-> PrTitle(plan),
     body   |-> description,
     head   |-> branch,
     base   |-> default_branch,
     labels |-> pr_labels \o ArchetypeLabels(plan)]

SuccessResult(plan, arts, branch, number) ==
    [status         |-> "success",
     diff_plan_id   |-> Get(plan, "diff_plan_id", None),
     pr_number      |-> number,
     pr_url         |-> <<"p", "u", "l", "l", "/">> \o NatStr(number),
     branch         |-> branch,
     files_changed  |-> Len(arts),
     archetypes     |-> plan.archetypes,
     gaps_addressed |-> [i \in 1..Len(Get(plan, "gaps", <<>>)) |-> plan.gaps[i].type]]

\* faulty variant: a failure of create_branch is swallowed and the run goes on
CreateBranch_ContinuesOnFailure(ok) ==
    /\ pc = "dispatch"
    /\ Publishes(dry_run, config)
    /\ branch_name' = BranchName(diff_plan)
    /\ calls' = Append(calls, "create_branch")
    /\ vcs' = IF ok THEN [vcs EXCEPT !.branches = @ \cup {BranchName(diff_plan)}] ELSE vcs
    /\ pc' = "commit"
    /\ UNCHANGED <<config, diff_plan, dry_run, context, artifacts, pr_description,
                   result, raised, steps>>
    /\ UNCHANGED <<engine_vars, gateway_vars, fleet_vars>>

\* Step 6 with auto_create_pr: the branch name and vcs_client.create_branch
CreateBranch(ok) ==
    /\ pc = "dispatch"
    /\ Publishes(dry_run, config)
    /\ branch_name' = BranchName(diff_plan)
    /\ calls' = Append(calls, "create_branch")
    /\ ok => BranchName(diff_plan) \notin vcs.branches
    /\ IF ok
       THEN /\ vcs' = [vcs EXCEPT !.branches = @ \cup {BranchName(diff_plan)}]
            /\ raised' = raised
            /\ pc' = "commit"
       ELSE /\ vcs' = vcs
            /\ raised' = "GatewayError"
            /\ pc' = "raised"
    /\ UNCHANGED <<config, diff_plan, dry_run, context, artifacts, pr_description,
                   result, steps>>
    /\ UNCHANGED <<engine_vars, gateway_vars, fleet_vars>>

\* vcs_client.commit_files
CommitFiles(ok) ==
    /\ pc = "commit"
    /\ calls' = Append(calls, "commit_files")
    /\ IF ok
       THEN /\ vcs' = [vcs EXCEPT !.commits =
                          Append(@, [branch  |-> branch_name,
                                     files   |-> FilesToCommit(artifacts, <<>>),
                                     message |-> CommitMessage(diff_plan)])]
            /\ raised' = raised
            /\ pc' = "pr"
       ELSE /\ vcs' = vcs
            /\ raised' = "GatewayError"
            /\ pc' = "raised"
    /\ UNCHANGED <<config, diff_plan, dry_run, context, artifacts, pr_description,
                   branch_name, result, steps>>
    /\ UNCHANGED <<engine_vars, gateway_vars, fleet_vars>>

\* vcs_client.create_pull_request and the return of the success result.
\* outcome: "created"; "failed" (the request that opens the change request
\* fails); "labels_failed" (GitHubClient: the change request is opened and
\* the request that labels it fails)
CreatePullRequest(outcome) ==
    /\ pc = "pr"
    /\ calls' = Append(calls, "create_pull_request")
    /\ vcs' = IF outcome = "failed" THEN vcs
              ELSE [vcs EXCEPT !.change_requests =
                       Append(@, ChangeRequest(diff_plan, pr_description, branch_name))]
    /\ IF outcome = "created"
       THEN /\ result' = SuccessResult(diff_plan, artifacts, branch_name,
                                       Len(vcs.change_requests) + 1)
            /\ raised' = raised
            /\ pc' = "returned"
       ELSE /\ result' = result
            /\ raised' = "GatewayError"
            /\ pc' = "raised"
    /\ UNCHANGED <<config, diff_plan, dry_run, context, artifacts, pr_description,
                   branch_name, steps>>
    /\ UNCHANGED <<engine_vars, gateway_vars, fleet_vars>>

\* the agent is called once, with any plan and either value of dry_run
Call ==
    /\ pc = "idle"
    /\ \E plan \in DiffPlans, dry \in BOOLEAN : process_diff_plan(plan, dry)

Next ==
    \/ Call
    \/ Validate
    \/ CheckConfidence
    \/ BuildContext
    \/ GenerateArtifacts
    \/ GenerateDescription
    \/ ReturnDryRun
    \/ ReturnArtifactsGenerated
    \/ \E ok \in BOOLEAN : CreateBranch(ok)
    \/ \E ok \in BOOLEAN : CommitFiles(ok)
    \/ \E outcome \in {"created", "failed", "labels_failed"} : CreatePullRequest(outcome)

Spec == Init /\ [][Next]_vars

(***************************************************************************)
(* The template engine on its own: _interpolate applied to a text and a    *)
(* variable mapping, and again to what it returned.                        *)
(***************************************************************************)
\* the longest text, in pieces
MaxTokens == 3

\* the number of times _interpolate is applied in a row
MaxPasses == 2

\* a piece of text that is the placeholder of a name
PlaceholderToken(name) == [text |-> <<"$", "{">> \o name \o <<"}">>, name |-> name]

\* a piece of text that is no placeholder
LiteralToken(text) == [text |-> text, name |-> <<>>]

\* the pieces: placeholders, and literals that look like parts of one (a
\* lone "$", a lone "}", an empty name, a name broken by a hyphen); no
\* sequence of the literals reads as a placeholder
Tokens ==
    { PlaceholderToken(<<"A">>), PlaceholderToken(<<"L">>), PlaceholderToken(<<"U", "N", "K", "N", "O", "W", "N", "_", "X">>),
      LiteralToken(<<"x">>), LiteralToken(<<"$">>), LiteralToken(<<"}">>),
      LiteralToken(<<"$", "{", "}">>), LiteralToken(<<"$", "{", "A", "-", "B", "}">>) }

\* the mappings: empty; a string and a list; a string that holds a
\* placeholder itself; an empty string and an empty list
VariableMaps ==
    { <<>>,
      << <<<<"A">>, StrVal(<<"v">>)>>, <<<<"L">>, ListVal(<<<<"a">>, <<"b">>>>)>> >>,
      << <<<<"A">>, StrVal(<<"$", "{", "L", "}">>)>>, <<<<"L">>, ListVal(<<<<"a">>>>)>> >>,
      << <<<<"U", "N", "K", "N", "O", "W", "N", "_", "X">>, StrVal(<<>>)>>, <<<<"L">>, ListVal(<<>>)>> >> }

\* the text the pieces make
TokenText(tokens) == Concat([i \in 1..Len(tokens) |-> tokens[i].text])

InterpolateInit ==
    /\ config = [confidence_threshold |-> confidence_threshold, auto_create_pr |-> TRUE]
    /\ pc = "idle"
    /\ diff_plan = Unset
    /\ dry_run = FALSE
    /\ context = Unset
    /\ artifacts = Unset
    /\ pr_description = Unset
    /\ branch_name = Unset
    /\ result = Unset
    /\ raised = "none"
    /\ steps = <<>>
    /\ calls = <<>>
    /\ vcs = [branches |-> {}, commits |-> <<>>, change_requests |-> <<>>]
    /\ tpl_tokens \in SeqsUpTo(Tokens, MaxTokens)
    /\ tpl_variables \in VariableMaps
    /\ tpl_outputs = <<>>
    /\ ResolverIdle
    /\ GatewayIdle
    /\ FleetIdle

\* self._interpolate(text, variables), the text being the template the
\* first time and the value returned the times after
Interpolate ==
    /\ Len(tpl_outputs) < MaxPasses
    /\ tpl_outputs' =
          Append(tpl_outputs,
                 _interpolate(IF tpl_outputs = <<>> THEN TokenText(tpl_tokens)
                              ELSE tpl_outputs[Len(tpl_outputs)],
                              tpl_variables))
    /\ UNCHANGED <<tpl_tokens, tpl_variables, tpl_library, tpl_name, tpl_dir>>
    /\ UNCHANGED <<agent_vars, gateway_vars, fleet_vars>>

InterpolateNext == Interpolate

InterpolateSpec == InterpolateInit /\ [][InterpolateNext]_vars

(***************************************************************************)
(* The gateway clients on their own (github_client.py, gitlab_client.py):  *)
(* one operation, request by request, against a server that answers each   *)
(* request as the repository stands or with a transient failure.  A        *)
(* request answered with an error status has changed nothing on the        *)
(* server.                                                                 *)
(***************************************************************************)
\* GitHubConfig.max_retries, GitLabConfig.max_retries
max_retries == 3

\* GitHubConfig.retry_delay, GitLabConfig.retry_delay, in seconds
retry_delay == 2

\* the longest sleep after a rate-limit response: time.sleep(min(..., 60))
rate_limit_sleep_cap == 60

\* the most files handed to commit_files
MaxFiles == 2

Minimum(a, b) == IF a <= b THEN a ELSE b

Maximum(a, b) == IF a >= b THEN a ELSE b

Backends == {"github", "gitlab"}

\* an HTTP response: its status code, its X-RateLimit-Remaining header, and
\* the wait its headers ask for (X-RateLimit-Reset less the time now, or
\* Retry-After)
Response(code, remaining, wait) == [code |-> code, remaining |-> remaining, wait |-> wait]

\* the failures a server may answer any request with
TransientResponses ==
    { Response(500, "5", 0),
      Response(403, "0", -5), Response(403, "0", 120), Response(403, "5", 0),
      Response(429, "5", 30), Response(429, "5", 120) }

\* "Handle rate limiting": the response the client takes for a rate limit
IsRateLimited(b, response) ==
    IF b = "github"
    THEN response.code = 403 /\ response.remaining = "0"
    ELSE response.code = 429

\* the sleep after a rate-limit response
RateLimitSleep(b, response) ==
    IF b = "github"
    THEN Minimum(Maximum(response.wait, 1), rate_limit_sleep_cap)
    ELSE Minimum(response.wait, rate_limit_sleep_cap)

\* faulty variant: the response of the last attempt is returned as it is
_request_ReturnsLastResponse(b, att, response) ==
    IF IsRateLimited(b, response)
    THEN [kind  |-> IF att + 1 < max_retries THEN "retry" ELSE "RuntimeError",
          sleep |-> <<[cause |-> "rate_limit", seconds |-> RateLimitSleep(b, response)]>>]
    ELSE IF response.code >= 400 /\ att < max_retries - 1
    THEN [kind  |-> "retry",
          sleep |-> <<[cause |-> "error_status", seconds |-> retry_delay * (2 ^ att)]>>]
    ELSE [kind |-> "returned", sleep |-> <<>>]

\* _request: one turn of its loop, with attempt = att and the response the
\* server gave: the sleep if any, and whether the loop goes on ("retry"),
\* returns the response, or raises
_request(b, att, response) ==
    IF IsRateLimited(b, response)
    THEN [kind  |-> IF att + 1 < max_retries THEN "retry" ELSE "RuntimeError",
          sleep |-> <<[cause |-> "rate_limit", seconds |-> RateLimitSleep(b, response)]>>]
    ELSE IF response.code >= 400
    THEN IF att < max_retries - 1
         THEN [kind  |-> "retry",
               sleep |-> <<[cause |-> "error_status", seconds |-> retry_delay * (2 ^ att)]>>]
         ELSE [kind |-> "HTTPStatusError", sleep |-> <<>>]
    ELSE [kind |-> "returned", sleep |-> <<>>]

AT_SIGN == "@"

\* str.strip() of a line, the white space being the space
RECURSIVE Strip(_)
Strip(s) ==
    IF s # <<>> /\ Head(s) = " " THEN Strip(Tail(s))
    ELSE IF s # <<>> /\ s[Len(s)] = " " THEN Strip(SubSeq(s, 1, Len(s) - 1))
    ELSE s

\* part.lstrip of the at sign
RECURSIVE LStripAt(_)
LStripAt(s) == IF s # <<>> /\ Head(s) = AT_SIGN THEN LStripAt(Tail(s)) ELSE s

\* line.split()
Parts(line) == SelectSeq(Split(line, " "), LAMBDA part : part # <<>>)

\* the owners one line names: its parts after the first that start with
\* the at sign
RECURSIVE LineOwners(_)
LineOwners(parts) ==
    IF parts = <<>> THEN <<>>
    ELSE (IF Head(parts)[1] = AT_SIGN THEN <<LStripAt(Head(parts))>> ELSE <<>>)
             \o LineOwners(Tail(parts))

\* "Parse CODEOWNERS (simplified)"
RECURSIVE ParseLines(_)
ParseLines(lines) ==
    IF lines = <<>> THEN <<>>
    ELSE LET line == Strip(Head(lines))
         IN  (IF line # <<>> /\ Head(line) # "#"
              THEN LineOwners(Tail(Parts(line))) ELSE <<>>)
                 \o ParseLines(Tail(lines))

ParseCodeowners(content) == ParseLines(Split(content, "\n"))

\* codeowners_paths, by their place in the list; and the text of the file
\* the repository may hold at each
CodeownersLocations == 1..3

CodeownersContent(location) ==
    IF location = 1
    THEN <<"#", " ", "o", "w", "n", "e", "r", "s">> \o <<"\n">> \o <<"*", " ", " ", "@", "p", "l", "a", "t", "f", "o", "r", "m", "-", "t", "e", "a", "m", " ", "@", "@", "a", "l", "i", "c", "e", " ", "b", "o", "b", " ">> \o <<"\n">>
    ELSE IF location = 2
    THEN <<"s", "r", "c", "/", " ", "@", "b", "o", "b">>
    ELSE <<>>

\* what an operation has come to: nothing yet, a value returned, an
\* exception that left it
NoResult == [kind |-> "none"]

Returned(value) == [kind |-> "returned", value |-> value]

Raised(error) == [kind |-> "raised", error |-> error]

\* where an operation stands after a _request call of its has ended
Continuation(next_pc, index, items, outcome, rem) ==
    [pc |-> next_pc, index |-> index, items |-> items, result |-> outcome, remote |-> rem]

\* the operations and their arguments: commit_files with n files (the
\* files are 1..n), get_codeowners
Operations ==
    {[name |-> "commit_files", n |-> k] : k \in 1..MaxFiles}
        \cup {[name |-> "get_codeowners", n |-> 0]}

\* the paths of tree_items (GitHub) or of actions (GitLab)
ItemPaths(b, items) ==
    {IF b = "github" THEN items[i] ELSE items[i].file_path : i \in 1..Len(items)}

\* the server takes the commit: the branch head shows the files of the
\* request, over what the branch held
CommitApplied(rem, paths) ==
    [rem EXCEPT !.head_files = paths,
                !.new_commits = @ + 1,
                !.existing = @ \cup paths]

\* faulty variant: the list of tree items is started again at every file
AppendTreeItem_Overwrites(items, path) == <<path>>

\* tree_items.append({"path": file_path, ...})
AppendTreeItem(items, path) == Append(items, path)

\* GitHubClient.commit_files, from one _request call to the next; kind is
\* how the call ended
GitHub_commit_files(kind) ==
    IF kind # "returned"
    THEN Continuation("done", op_index, op_items, Raised(kind), remote)
    ELSE IF op_pc = "get_ref"
    THEN Continuation("get_commit", op_index, op_items, NoResult, remote)
    ELSE IF op_pc = "get_commit"
    THEN Continuation("blob", 1, <<>>, NoResult, remote)
    ELSE IF op_pc = "blob"
    THEN IF op_index < operation.n
         THEN Continuation("blob", op_index + 1, AppendTreeItem(op_items, op_index),
                           NoResult, remote)
         ELSE Continuation("tree", op_index, AppendTreeItem(op_items, op_index),
                           NoResult, remote)
    ELSE IF op_pc = "tree"
    THEN Continuation("commit", op_index, op_items, NoResult, remote)
    ELSE IF op_pc = "commit"
    THEN Continuation("update_ref", op_index, op_items, NoResult, remote)
    ELSE Continuation("done", op_index, op_items, Returned("commit"),
                      CommitApplied(remote, ItemPaths("github", op_items)))

\* GitLabClient.commit_files: the look at each file (a raised
\* HTTPStatusError means "create"), then the one commits request
GitLab_commit_files(kind) ==
    IF op_pc = "check_file"
    THEN IF kind = "RuntimeError"
         THEN Continuation("done", op_index, op_items, Raised(kind), remote)
         ELSE LET action == IF kind = "returned" THEN "update" ELSE "create"
                  actions == Append(op_items, [action |-> action, file_path |-> op_index])
              IN  IF op_index < operation.n
                  THEN Continuation("check_file", op_index + 1, actions, NoResult, remote)
                  ELSE Continuation("commit", op_index, actions, NoResult, remote)
    ELSE IF kind = "returned"
    THEN Continuation("done", op_index, op_items, Returned("commit"),
                      CommitApplied(remote, ItemPaths("gitlab", op_items)))
    ELSE Continuation("done", op_index, op_items, Raised(kind), remote)

\* get_codeowners of either client: location after location, the next one
\* on HTTPStatusError
get_codeowners(kind) ==
    IF kind = "returned"
    THEN Continuation("done", op_index, op_items,
                      Returned(ParseCodeowners(CodeownersContent(op_index))), remote)
    ELSE IF kind = "HTTPStatusError"
    THEN IF op_index < 3
         THEN Continuation("fetch", op_index + 1, op_items, NoResult, remote)
         ELSE Continuation("done", op_index, op_items, Returned(<<>>), remote)
    ELSE Continuation("done", op_index, op_items, Raised(kind), remote)

\* the status the server answers the request at hand with when nothing
\* transient is in the way
ServerStatus ==
    IF operation.name = "get_codeowners"
    THEN IF op_index \in remote.codeowners THEN 200 ELSE 404
    ELSE IF backend = "github"
    THEN 200
    ELSE IF op_pc = "check_file"
    THEN IF op_index \in remote.existing THEN 200 ELSE 404
    ELSE IF \A i \in 1..Len(op_items) :
               (op_items[i].action = "update") <=> (op_items[i].file_path \in remote.existing)
    THEN 200
    ELSE 400

ServerResponses == TransientResponses \cup {Response(ServerStatus, "5", 0)}

AllResponses == TransientResponses \cup {Response(code, "5", 0) : code \in {200, 400, 404}}

\* one HTTP request of the operation in progress and what the client does
\* with the response: another turn of the loop of _request, or the end of
\* the call and the operation's next step, which Continue gives for each
\* way the call can end
Exchange(response, Continue) ==
    /\ op_result.kind = "none"
    /\ response \in ServerResponses
    /\ LET step == _request(backend, attempt, response)
       IN  IF step.kind = "retry"
           THEN /\ attempt' = attempt + 1
                /\ requests' = requests + 1
                /\ sleeps' = sleeps \o step.sleep
                /\ UNCHANGED <<op_pc, op_index, op_items, op_result, last_call, remote>>
           ELSE /\ attempt' = 0
                /\ requests' = 0
                /\ sleeps' = <<>>
                /\ last_call' = [outcome  |-> step.kind,
                                 code     |-> response.code,
                                 requests |-> requests + 1,
                                 sleeps   |-> sleeps \o step.sleep]
                /\ op_pc' = Continue[step.kind].pc
                /\ op_index' = Continue[step.kind].index
                /\ op_items' = Continue[step.kind].items
                /\ op_result' = Continue[step.kind].result
                /\ remote' = Continue[step.kind].remote
    /\ UNCHANGED <<backend, operation>>
    /\ UNCHANGED <<agent_vars, engine_vars, fleet_vars>>

CommitFilesGitHub(response) ==
    /\ backend = "github"
    /\ operation.name = "commit_files"
    /\ Exchange(response, [kind \in {"returned", "HTTPStatusError", "RuntimeError"} |->
                              GitHub_commit_files(kind)])

CommitFilesGitLab(response) ==
    /\ backend = "gitlab"
    /\ operation.name = "commit_files"
    /\ Exchange(response, [kind \in {"returned", "HTTPStatusError", "RuntimeError"} |->
                              GitLab_commit_files(kind)])

GetCodeowners(response) ==
    /\ operation.name = "get_codeowners"
    /\ Exchange(response, [kind \in {"returned", "HTTPStatusError", "RuntimeError"} |->
                              get_codeowners(kind)])

\* the agent and the template engine at rest
AgentIdle ==
    /\ config = [confidence_threshold |-> confidence_threshold, auto_create_pr |-> TRUE]
    /\ pc = "idle"
    /\ diff_plan = Unset
    /\ dry_run = FALSE
    /\ context = Unset
    /\ artifacts = Unset
    /\ pr_description = Unset
    /\ branch_name = Unset
    /\ result = Unset
    /\ raised = "none"
    /\ steps = <<>>
    /\ calls = <<>>
    /\ vcs = [branches |-> {}, commits |-> <<>>, change_requests |-> <<>>]
    /\ tpl_tokens = <<>>
    /\ tpl_variables = <<>>
    /\ tpl_outputs = <<>>
    /\ ResolverIdle

\* a client, an operation called on it, and a repository: for commit_files
\* any of the files may be on the branch already, for get_codeowners a
\* CODEOWNERS file may be at any of the locations
GatewayInit ==
    /\ AgentIdle
    /\ FleetIdle
    /\ backend \in Backends
    /\ operation \in Operations
    /\ \E existing \in SUBSET (1..operation.n) :
       \E codeowners \in (IF operation.name = "get_codeowners"
                          THEN SUBSET CodeownersLocations ELSE {{}}) :
          remote = [head_files |-> {}, new_commits |-> 0,
                    existing |-> existing, codeowners |-> codeowners]
    /\ op_pc = (IF operation.name = "get_codeowners" THEN "fetch"
                ELSE IF backend = "github" THEN "get_ref" ELSE "check_file")
    /\ op_index = 1
    /\ op_items = <<>>
    /\ op_result = NoResult
    /\ attempt = 0
    /\ requests = 0
    /\ sleeps = <<>>
    /\ last_call = [outcome |-> "none"]

GatewayNext ==
    \/ \E response \in AllResponses : CommitFilesGitHub(response)
    \/ \E response \in AllResponses : CommitFilesGitLab(response)
    \/ \E response \in AllResponses : GetCodeowners(response)

GatewaySpec == GatewayInit /\ [][GatewayNext]_vars

(***************************************************************************)
(* TemplateEngine._find_template_dir on its own: a library under           *)
(* templates_path, a template name, and the entry the lookup returns.      *)
(***************************************************************************)
\* the entries a library may hold: for the name otel-java the path
\* java/otel, directories of that name under two languages and under
\* common, and a plain file at common/otel-java; for the name runbook a
\* directory under common
LibraryEntries ==
    { [lang |-> e[1], name |-> e[2], is_dir |-> e[3], files |-> <<>>]
        : e \in { <<LANG_JAVA, <<"o", "t", "e", "l">>, TRUE>>,
                  <<LANG_PYTHON, <<"o", "t", "e", "l", "-", "j", "a", "v", "a">>, TRUE>>,
                  <<LANG_GO, <<"o", "t", "e", "l", "-", "j", "a", "v", "a">>, TRUE>>,
                  <<COMMON, <<"o", "t", "e", "l", "-", "j", "a", "v", "a">>, TRUE>>,
                  <<COMMON, <<"o", "t", "e", "l", "-", "j", "a", "v", "a">>, FALSE>>,
                  <<COMMON, <<"r", "u", "n", "b", "o", "o", "k">>, TRUE>> } }

\* a library holds one entry at a path; the name looked up is otel-java or
\* runbook
ResolveInit ==
    /\ config = [confidence_threshold |-> confidence_threshold, auto_create_pr |-> TRUE]
    /\ pc = "idle"
    /\ diff_plan = Unset
    /\ dry_run = FALSE
    /\ context = Unset
    /\ artifacts = Unset
    /\ pr_description = Unset
    /\ branch_name = Unset
    /\ result = Unset
    /\ raised = "none"
    /\ steps = <<>>
    /\ calls = <<>>
    /\ vcs = [branches |-> {}, commits |-> <<>>, change_requests |-> <<>>]
    /\ tpl_tokens = <<>>
    /\ tpl_variables = <<>>
    /\ tpl_outputs = <<>>
    /\ tpl_library \in { l \in SUBSET LibraryEntries :
                           \A d, e \in l : (d.lang = e.lang /\ d.name = e.name) => d = e }
    /\ tpl_name \in { <<"o", "t", "e", "l", "-", "j", "a", "v", "a">>, <<"r", "u", "n", "b", "o", "o", "k">> }
    /\ tpl_dir = <<>>
    /\ GatewayIdle
    /\ FleetIdle

\* self._find_template_dir(template_name): any of the entries the order of
\* iterdir may put first, or None
Resolve ==
    /\ tpl_dir = <<>>
    /\ LET dirs == FindTemplateDir(tpl_library, tpl_name)
       IN  IF dirs = {}
           THEN tpl_dir' = <<[found |-> FALSE]>>
           ELSE \E d \in dirs : tpl_dir' = <<[found |-> TRUE, dir |-> d]>>
    /\ UNCHANGED <<tpl_tokens, tpl_variables, tpl_outputs, tpl_library, tpl_name>>
    /\ UNCHANGED <<agent_vars, gateway_vars, fleet_vars>>

ResolveNext == Resolve

ResolveSpec == ResolveInit /\ [][ResolveNext]_vars

(***************************************************************************)
(* Construction of the agent with its gateway client, and several agents   *)
(* publishing to one backend: each is constructed, then reaches            *)
(* _create_pull_request, reads the clock and creates its branch.           *)
(***************************************************************************)
\* the token of the environment (GITHUB_TOKEN, GITLAB_TOKEN): not set, set
\* to the empty string, set
EnvironTokens == {None, <<>>, <<"g", "h", "p", "_", "x">>}

\* the vcs_client argument of PRAuthorAgent
VcsClients == {"github", "gitlab", "bitbucket"}

\* the truth value Python gives an optional string
Truthy(value) == value # None /\ value # <<>>

\* GitHubConfig(): no access_token is passed, so __post_init__ takes that of
\* the environment
GitHubConfig(environ_token) ==
    [access_token |-> IF Truthy(None) THEN None ELSE environ_token]

\* GitHubClient._get_auth_token; self holds the attributes assigned so far,
\* and reading one that is not assigned yet raises AttributeError
_get_auth_token(self) ==
    IF Truthy(self.config.access_token)
    THEN [raised |-> "none", value |-> self.config.access_token]
    ELSE IF "_installation_token" \notin DOMAIN self
         THEN [raised |-> "AttributeError"]
         ELSE IF Truthy(self["_installation_token"]) /\ 0 < self["_token_expires"]
              THEN [raised |-> "none", value |-> self["_installation_token"]]
              ELSE [raised |-> "none", value |-> None]

\* GitHubClient._build_headers
_build_headers(self) ==
    LET headers == << <<"Accept", <<"a", "p", "p", "l", "i", "c", "a", "t", "i", "o", "n", "/", "v", "n", "d", ".", "g", "i", "t", "h", "u", "b", "+", "j", "s", "o", "n">>>>,
                      <<"X-GitHub-Api-Version", <<"2", "0", "2", "2", "-", "1", "1", "-", "2", "8">>>> >>
        token == _get_auth_token(self)
    IN  IF token.raised # "none"
        THEN [raised |-> token.raised]
        ELSE [raised |-> "none",
              value  |-> IF Truthy(token.value)
                         THEN DictSet(headers, "Authorization", <<"B", "e", "a", "r", "e", "r", " ">> \o token.value)
                         ELSE headers]

\* GitHubClient(): config, then the HTTP client with the headers, then the
\* installation token and its expiry
GitHubClient(environ_token) ==
    LET configured == [config |-> GitHubConfig(environ_token)]
        headers == _build_headers(configured)
    IN  IF headers.raised # "none"
        THEN [raised |-> headers.raised]
        ELSE [raised |-> "none", headers |-> headers.value]

\* GitLabClient(): config, then the HTTP client with the headers
GitLabClient(environ_token) ==
    LET headers == << <<"Content-Type", <<"a", "p", "p", "l", "i", "c", "a", "t", "i", "o", "n", "/", "j", "s", "o", "n">>>> >>
    IN  [raised  |-> "none",
         headers |-> IF Truthy(environ_token)
                     THEN DictSet(headers, "PRIVATE-TOKEN", environ_token)
                     ELSE headers]

\* PRAuthorAgent(vcs_client=...): the gateway client it constructs
PRAuthorAgent(vcs_client, environ_token) ==
    IF vcs_client = "github" THEN GitHubClient(environ_token)
    ELSE IF vcs_client = "gitlab" THEN GitLabClient(environ_token)
    ELSE [raised |-> "ValueError"]

\* int(datetime.now().timestamp()): the whole seconds of a clock that counts
\* half seconds
Timestamp(clock) == branch_timestamp + (clock \div 2)

\* the half seconds the clock is followed for
MaxTicks == 3

\* the agents side by side
MaxRuns == 2

RunIds == 1..MaxRuns

\* the repositories the agents publish to
FleetRepos == {REPO_ORDERS_ENRICHER, REPO_BILLING}

\* an agent about to be constructed for a plan of a repository
NewRun(vcs_client, environ_token, repo) ==
    [pc |-> "new", vcs_client |-> vcs_client, environ_token |-> environ_token,
     repo |-> repo, agent |-> [raised |-> "pending"], branch_name |-> <<>>]

FleetInit ==
    /\ AgentIdle
    /\ GatewayIdle
    /\ now = 0
    /\ runs \in [RunIds -> { NewRun(c, t, r) : c \in VcsClients, t \in EnvironTokens,
                                               r \in FleetRepos }]

\* PRAuthorAgent(vcs_client=...) for run r
Construct(r) ==
    /\ runs[r].pc = "new"
    /\ LET agent == PRAuthorAgent(runs[r].vcs_client, runs[r].environ_token)
       IN  runs' = [runs EXCEPT ![r].agent = agent,
                                ![r].pc = IF agent.raised = "none" THEN "constructed"
                                          ELSE "raised"]
    /\ UNCHANGED now
    /\ UNCHANGED <<agent_vars, engine_vars, gateway_vars>>

\* run r at the head of _create_pull_request: the branch name from the clock
\* and vcs_client.create_branch, which the backend refuses for a name that
\* exists
RunCreateBranch(r, ok) ==
    /\ runs[r].pc = "constructed"
    /\ LET name == BranchNameAt(runs[r].repo, Timestamp(now))
           created == ok /\ name \notin vcs.branches
       IN  /\ runs' = [runs EXCEPT ![r].branch_name = name,
                                   ![r].pc = IF created THEN "branched" ELSE "raised"]
           /\ vcs' = IF created THEN [vcs EXCEPT !.branches = @ \cup {name}] ELSE vcs
    /\ UNCHANGED now
    /\ UNCHANGED <<config, pc, diff_plan, dry_run, context, artifacts, pr_description,
                   branch_name, result, raised, steps, calls>>
    /\ UNCHANGED <<engine_vars, gateway_vars>>

\* half a second passes
Tick ==
    /\ now < MaxTicks
    /\ now' = now + 1
    /\ UNCHANGED runs
    /\ UNCHANGED <<agent_vars, engine_vars, gateway_vars>>

FleetNext ==
    \/ \E r \in RunIds : Construct(r)
    \/ \E r \in RunIds : \E ok \in BOOLEAN : RunCreateBranch(r, ok)
    \/ Tick

FleetSpec == FleetInit /\ [][FleetNext]_vars

(***************************************************************************)
(* Properties.                                                             *)
(***************************************************************************)
\* process_diff_plan has returned or raised
Ended == pc \in {"returned", "raised"}

\* the plan carries the five required fields and a non-empty archetype list
PassesValidation(plan) ==
    /\ {"repo", "archetypes", "confidence", "tech_stack", "gaps"} \subseteq DOMAIN plan
    /\ Len(plan.archetypes) > 0

\* the backend as it was before the run
InitialVcs == [branches |-> {}, commits |-> <<>>, change_requests |-> <<>>]

AllGatewayCalls == <<"create_branch", "commit_files", "create_pull_request">>

\* C1 (as stated): a plan that passes validation with confidence >= the
\* threshold always yields the DryRun or the Published outcome, whatever the
\* configuration.
C1_DryRunOrPublished ==
    (pc = "returned" /\ PassesValidation(diff_plan)
        /\ diff_plan.confidence >= config.confidence_threshold)
    => result.status \in {"dry_run", "success"}

\* C1 (amended): for a plan that passes validation with confidence >= the
\* threshold the run ends in exactly one of: the DryRun result (exactly when
\* dry_run), the artifacts-generated result (exactly when not dry_run and
\* auto_create_pr is off), the Published result (only when not dry_run, with
\* auto_create_pr on and after the three gateway operations), or a gateway
\* failure without any result; it is never Skipped.
C1_OneOutcome ==
    (Ended /\ PassesValidation(diff_plan)
        /\ diff_plan.confidence >= config.confidence_threshold)
    => IF dry_run
       THEN pc = "returned" /\ raised = "none" /\ result.status = "dry_run"
       ELSE IF ~config.auto_create_pr
       THEN pc = "returned" /\ raised = "none" /\ result.status = "artifacts_generated"
       ELSE \/ /\ pc = "returned"
               /\ raised = "none"
               /\ result.status = "success"
               /\ calls = AllGatewayCalls
            \/ /\ pc = "raised"
               /\ raised = "GatewayError"
               /\ result = Unset

\* C1 witness: a plan exactly at the threshold is published
C1_Witness ==
    /\ pc = "returned"
    /\ PassesValidation(diff_plan)
    /\ diff_plan.confidence = config.confidence_threshold
    /\ result.status = "success"

\* C2: a plan that passes validation with confidence strictly below the
\* threshold is Skipped, with a reason that embeds the confidence and the
\* threshold; no later step runs and no gateway operation is invoked; a
\* confidence equal to the threshold is not skipped.
C2_SkippedBelowThreshold ==
    (Ended /\ PassesValidation(diff_plan))
    => IF diff_plan.confidence < config.confidence_threshold
       THEN /\ pc = "returned"
            /\ result.status = "skipped"
            /\ Contains(result.reason, FormatFixed2(diff_plan.confidence))
            /\ Contains(result.reason, FloatStr(config.confidence_threshold))
            /\ steps = <<"validate", "gate">>
            /\ context = Unset
            /\ artifacts = Unset
            /\ pr_description = Unset
            /\ calls = <<>>
            /\ vcs = InitialVcs
       ELSE ~(pc = "returned" /\ result.status = "skipped")

\* C2 witness: a confidence of 0.699 against the threshold 0.7 is skipped
C2_Witness ==
    /\ pc = "returned"
    /\ diff_plan.confidence = 699
    /\ config.confidence_threshold = 700
    /\ result.status = "skipped"

\* C3: a plan that lacks a required field, or whose archetype list is
\* empty, fails with a validation error before the confidence gate, before
\* any artifact and before any gateway call, and no result is returned.
C3_ValidationFailsFirst ==
    (pc \notin {"idle", "validate"} /\ ~PassesValidation(diff_plan))
    => /\ pc = "raised"
       /\ raised = "ValueError"
       /\ result = Unset
       /\ steps = <<"validate">>
       /\ context = Unset
       /\ artifacts = Unset
       /\ calls = <<>>
       /\ vcs = InitialVcs

\* C3 witness: a plan with an empty archetype list and a confidence below
\* the threshold raises instead of being skipped
C3_Witness ==
    /\ pc = "raised"
    /\ raised = "ValueError"
    /\ "archetypes" \in DOMAIN diff_plan
    /\ diff_plan.archetypes = <<>>
    /\ diff_plan.confidence < config.confidence_threshold

\* _generate_artifacts has returned in this run
ArtifactsReady ==
    \E i \in 1..Len(steps) : steps[i] = "artifacts"

\* C4: a dry run of a plan that passes validation and the gate returns
\* DryRun with the description and one (path, action) pair per artifact, in
\* the order of the artifact list; no gateway operation is invoked at any
\* point of a dry run.
C4_DryRunManifestNoGateway ==
    /\ (pc # "idle" /\ dry_run) => (calls = <<>> /\ vcs = InitialVcs)
    /\ (Ended /\ dry_run /\ PassesValidation(diff_plan)
            /\ diff_plan.confidence >= config.confidence_threshold)
       => /\ pc = "returned"
          /\ result.status = "dry_run"
          /\ steps = <<"validate", "gate", "context", "artifacts", "describe">>
          /\ result.pr_description = pr_description
          /\ Len(result.artifacts) = Len(artifacts)
          /\ \A i \in 1..Len(artifacts) :
                result.artifacts[i] = [path   |-> artifacts[i].file_path,
                                       action |-> artifacts[i].action]

\* C4 witness: a dry run with auto_create_pr on returns a manifest of
\* several artifacts
C4_Witness ==
    /\ pc = "returned"
    /\ dry_run
    /\ config.auto_create_pr
    /\ result.status = "dry_run"
    /\ Len(result.artifacts) >= 3

\* C5: in a run that publishes, create_branch, commit_files and
\* create_pull_request are invoked in that order, each at most once; an
\* operation is invoked only after the one before it completed; a failure
\* ends the run without a result; what completed before stays on the
\* backend.
C5_GatewayOrderAndAbort ==
    /\ \E n \in 0..3 : calls = SubSeq(AllGatewayCalls, 1, n)
    /\ calls # <<>> => (~dry_run /\ config.auto_create_pr)
    /\ Len(calls) >= 2 => branch_name \in vcs.branches
    /\ Len(calls) = 3 => (Len(vcs.commits) = 1 /\ vcs.commits[1].branch = branch_name)
    /\ raised = "GatewayError" => (pc = "raised" /\ result = Unset /\ calls # <<>>)
    /\ (pc = "returned" /\ result.status = "success")
       => (calls = AllGatewayCalls /\ raised = "none"
             /\ Len(vcs.change_requests) = 1)
    /\ (Ended /\ ~dry_run /\ config.auto_create_pr /\ PassesValidation(diff_plan)
            /\ diff_plan.confidence >= config.confidence_threshold)
       => calls # <<>>

\* C5 witness: commit_files fails after create_branch completed; the branch
\* is still there and create_pull_request was not invoked
C5_Witness ==
    /\ pc = "raised"
    /\ raised = "GatewayError"
    /\ calls = <<"create_branch", "commit_files">>
    /\ branch_name \in vcs.branches
    /\ vcs.commits = <<>>
    /\ vcs.change_requests = <<>>

\* C6: a run that is not a dry run, with auto_create_pr off, returns the
\* artifacts-generated outcome carrying the artifact count and the plan id
\* and nothing else, and invokes no gateway operation.
C6_ArtifactsGeneratedOnly ==
    (Ended /\ ~dry_run /\ ~config.auto_create_pr /\ PassesValidation(diff_plan)
        /\ diff_plan.confidence >= config.confidence_threshold)
    => /\ pc = "returned"
       /\ result.status = "artifacts_generated"
       /\ DOMAIN result = {"status", "diff_plan_id", "artifacts_count"}
       /\ result.artifacts_count = Len(artifacts)
       /\ result.diff_plan_id = (IF "diff_plan_id" \in DOMAIN diff_plan
                                 THEN diff_plan.diff_plan_id ELSE None)
       /\ calls = <<>>
       /\ vcs = InitialVcs

\* C6 witness: three gaps-and-patches artifacts are counted, none published
C6_Witness ==
    /\ pc = "returned"
    /\ ~dry_run
    /\ result.status = "artifacts_generated"
    /\ result.artifacts_count >= 3
    /\ result.artifacts_count # Len(diff_plan.gaps)

\* the number of artifacts at a path
CountPath(arts, path) ==
    Cardinality({i \in 1..Len(arts) : arts[i].file_path = path})

\* the plan itself targets RUNBOOK.md: by a patch instruction, or by a gap
\* whose template is found and renders a file there
PlanTargetsRunbook(plan, ctx) ==
    \/ \E i \in 1..Len(Get(plan, "patch_plan", <<>>)) : plan.patch_plan[i].file = RUNBOOK_MD
    \/ \E i \in 1..Len(plan.gaps) :
          /\ plan.gaps[i].template # <<>>
          /\ LET r == render_template(plan.gaps[i].template, ctx)
             IN  /\ ~r.raised
                 /\ \E j \in 1..Len(r.files) : r.files[j][1] = RUNBOOK_MD

\* the artifacts synthesized from the built-in runbook
BuiltinRunbooks(arts) ==
    {i \in 1..Len(arts) : arts[i].template = <<"r", "u", "n", "b", "o", "o", "k">>}

\* C7: every generated artifact list has an artifact at RUNBOOK.md; the
\* built-in runbook (action create) is in it exactly when no gap template
\* and no patch instruction targets RUNBOOK.md.
C7_RunbookAlwaysPresent ==
    ArtifactsReady
    => /\ CountPath(artifacts, RUNBOOK_MD) >= 1
       /\ \A i \in BuiltinRunbooks(artifacts) :
             /\ artifacts[i].file_path = RUNBOOK_MD
             /\ artifacts[i].action = "create"
             /\ artifacts[i].content = render_runbook(context)
       /\ IF PlanTargetsRunbook(diff_plan, context)
          THEN BuiltinRunbooks(artifacts) = {}
          ELSE /\ Cardinality(BuiltinRunbooks(artifacts)) = 1
               /\ CountPath(artifacts, RUNBOOK_MD) = 1

\* C7 witness: a plan whose only gap names a template that is not found,
\* and without patches, still gets the built-in runbook
C7_Witness ==
    /\ ArtifactsReady
    /\ Len(diff_plan.gaps) = 1
    /\ diff_plan.gaps[1].template = TMPL_NO_SUCH
    /\ Get(diff_plan, "patch_plan", <<>>) = <<>>
    /\ Cardinality(BuiltinRunbooks(artifacts)) = 1

LineagePath(plan) == <<"l", "i", "n", "e", "a", "g", "e", "/">> \o plan.repo \o <<".", "y", "a", "m", "l">>

\* C8 (as stated): the artifact list holds exactly one artifact at
\* lineage/{service_name}.yaml when the plan has a missing_lineage_spec gap
\* and none when it has not, whatever the gap templates and the patch
\* instructions.
C8_ExactlyOneLineageSpec ==
    ArtifactsReady
    => CountPath(artifacts, LineagePath(diff_plan))
         = (IF \E i \in 1..Len(diff_plan.gaps) :
                  diff_plan.gaps[i].type = "missing_lineage_spec"
            THEN 1 ELSE 0)

StartsWith(s, prefix) ==
    /\ Len(prefix) <= Len(s)
    /\ SubSeq(s, 1, Len(prefix)) = prefix

\* C9 (as stated): the plan for orders-enricher in java, confidence 0.87,
\* one missing_otel gap, yields a telemetry test at
\* src/test/java/com/company/orders/enricher/otel/OrdersEnricherOtelInterceptorTest.java,
\* a RUNBOOK.md and nothing under lineage/ or contracts/.
C9_JavaTelemetryTestPath ==
    (/\ ArtifactsReady
     /\ diff_plan.repo = REPO_ORDERS_ENRICHER
     /\ diff_plan.tech_stack.language = LANG_JAVA
     /\ diff_plan.confidence = 870
     /\ config.confidence_threshold = 700
     /\ Len(diff_plan.gaps) = 1
     /\ diff_plan.gaps[1].type = "missing_otel"
     /\ Get(diff_plan, "patch_plan", <<>>) = <<>>)
    => /\ \E i \in 1..Len(artifacts) :
             /\ artifacts[i].template = <<"t", "e", "l", "e", "m", "e", "t", "r", "y", "-", "t", "e", "s", "t">>
             /\ artifacts[i].file_path =
                    <<"s", "r", "c", "/", "t", "e", "s", "t", "/", "j", "a", "v", "a", "/", "c", "o", "m", "/", "c", "o", "m", "p", "a", "n", "y", "/", "o", "r", "d", "e", "r", "s", "/", "e", "n", "r", "i", "c", "h", "e", "r", "/", "o", "t", "e", "l", "/", "O", "r", "d", "e", "r", "s", "E", "n", "r", "i", "c", "h", "e", "r", "O", "t", "e", "l", "I", "n", "t", "e", "r", "c", "e", "p", "t", "o", "r", "T", "e", "s", "t", ".", "j", "a", "v", "a">>
       /\ CountPath(artifacts, RUNBOOK_MD) = 1
       /\ \A i \in 1..Len(artifacts) :
             /\ ~StartsWith(artifacts[i].file_path, <<"l", "i", "n", "e", "a", "g", "e", "/">>)
             /\ ~StartsWith(artifacts[i].file_path, <<"c", "o", "n", "t", "r", "a", "c", "t", "s", "/">>)

\* the artifacts synthesized as the telemetry-validation test
TelemetryTests(arts) ==
    {i \in 1..Len(arts) : arts[i].template = <<"t", "e", "l", "e", "m", "e", "t", "r", "y", "-", "t", "e", "s", "t">>}

\* C10: one telemetry-validation test is synthesized when some gap has type
\* missing_otel or missing_correlation, however many, and none otherwise; its
\* path follows the convention of java, python and go, and is
\* tests/test_telemetry.{language} for another language.
C10_OneTelemetryTest ==
    ArtifactsReady
    => LET sn   == diff_plan.repo
           lang == diff_plan.tech_stack.language
       IN  /\ Cardinality(TelemetryTests(artifacts))
                = (IF \E i \in 1..Len(diff_plan.gaps) :
                         diff_plan.gaps[i].type \in {"missing_otel", "missing_correlation"}
                   THEN 1 ELSE 0)
           /\ \A i \in TelemetryTests(artifacts) :
                 /\ artifacts[i].action = "create"
                 /\ lang = LANG_JAVA
                    => /\ StartsWith(artifacts[i].file_path,
                                     <<"s", "r", "c", "/", "t", "e", "s", "t", "/", "j", "a", "v", "a", "/", "c", "o", "m", "/", "c", "o", "m", "p", "a", "n", "y", "/">>
                                         \o Replace(sn, "-", <<"/">>) \o <<"/", "o", "t", "e", "l", "/">>)
                       /\ EndsWith(artifacts[i].file_path, <<"O", "t", "e", "l", "I", "n", "t", "e", "r", "c", "e", "p", "t", "o", "r", "T", "e", "s", "t", ".", "j", "a", "v", "a">>)
                 /\ lang = LANG_PYTHON
                    => artifacts[i].file_path
                         = <<"t", "e", "s", "t", "s", "/", "t", "e", "s", "t", "_", "o", "t", "e", "l", "_">> \o Replace(sn, "-", <<"_">>) \o <<".", "p", "y">>
                 /\ lang = LANG_GO
                    => artifacts[i].file_path = <<"i", "n", "t", "e", "r", "n", "a", "l", "/", "o", "b", "s", "e", "r", "v", "a", "b", "i", "l", "i", "t", "y", "/", "o", "t", "e", "l", "_", "t", "e", "s", "t", ".", "g", "o">>
                 /\ lang \notin {LANG_JAVA, LANG_PYTHON, LANG_GO}
                    => artifacts[i].file_path = <<"t", "e", "s", "t", "s", "/", "t", "e", "s", "t", "_", "t", "e", "l", "e", "m", "e", "t", "r", "y", ".">> \o lang

\* C10 witness: a missing_otel and a missing_correlation gap in a language
\* outside the table give one test at the generic path
C10_Witness ==
    /\ ArtifactsReady
    /\ Len(diff_plan.gaps) = 2
    /\ diff_plan.gaps[1].type = "missing_otel"
    /\ diff_plan.gaps[2].type = "missing_correlation"
    /\ diff_plan.tech_stack.language = LANG_RUST
    /\ Cardinality(TelemetryTests(artifacts)) = 1
    /\ \E i \in TelemetryTests(artifacts) :
          artifacts[i].file_path = <<"t", "e", "s", "t", "s", "/", "t", "e", "s", "t", "_", "t", "e", "l", "e", "m", "e", "t", "r", "y", ".", "r", "u", "s", "t">>

\* _generate_artifacts has just returned: the artifact list does not change
\* afterwards
JustGenerated == pc = "describe"

\* what render_template gives for each gap of the plan, as a sequence in plan
\* order; a gap without a template is not rendered
RenderedGaps(plan, ctx) ==
    <<>> \o [g \in 1..Len(plan.gaps) |->
                IF plan.gaps[g].template = <<>>
                THEN [raised |-> FALSE, files |-> <<>>]
                ELSE render_template(plan.gaps[g].template, ctx)]

\* C11: a gap whose template is not found or fails to render never aborts
\* the run: _generate_artifacts returns, the artifacts of every other gap,
\* of every patch instruction and the always-on ones are there, and the
\* list is the one the plan gives with the failing gaps' templates left
\* out.
C11_GapFailureIsolated ==
    /\ (pc \in {"describe", "dispatch", "commit", "pr", "returned"}
          /\ raised = "none" /\ PassesValidation(diff_plan)
          /\ diff_plan.confidence >= config.confidence_threshold)
       => ArtifactsReady
    /\ JustGenerated
       => LET gaps     == diff_plan.gaps
              rendered == RenderedGaps(diff_plan, context)
              failing  == {g \in 1..Len(gaps) : rendered[g].raised}
              cleaned  == [diff_plan EXCEPT !.gaps =
                              [g \in 1..Len(gaps) |->
                                  IF g \in failing
                                  THEN [gaps[g] EXCEPT !.template = <<>>]
                                  ELSE gaps[g]]]
          IN  /\ raised = "none"
              /\ artifacts = _generate_artifacts(cleaned, context)
              /\ \A g \in (1..Len(gaps)) \ failing :
                    \A j \in 1..Len(rendered[g].files) :
                       \E k \in 1..Len(artifacts) :
                          artifacts[k] = GeneratedArtifact(rendered[g].files[j][1],
                                                           rendered[g].files[j][2],
                                                           "create", gaps[g].template)
              /\ \A i \in 1..Len(Get(diff_plan, "patch_plan", <<>>)) :
                    \E k \in 1..Len(artifacts) :
                       /\ artifacts[k].file_path = diff_plan.patch_plan[i].file
                       /\ artifacts[k].action = diff_plan.patch_plan[i].action
                       /\ artifacts[k].template = None
              /\ CountPath(artifacts, RUNBOOK_MD) >= 1
              /\ \A k \in 1..Len(artifacts) :
                    artifacts[k].template \notin {gaps[g].template : g \in failing}

\* C11 witness: the first gap's template is not found, the second gap's is
\* rendered, and a patch instruction is in the list too
C11_Witness ==
    /\ JustGenerated
    /\ Len(diff_plan.gaps) = 2
    /\ diff_plan.gaps[1].template = TMPL_NO_SUCH
    /\ diff_plan.gaps[2].template = TMPL_KAFKA_OTEL_JAVA
    /\ Len(Get(diff_plan, "patch_plan", <<>>)) = 1
    /\ \E k \in 1..Len(artifacts) : artifacts[k].template = TMPL_KAFKA_OTEL_JAVA
    /\ \E k \in 1..Len(artifacts) : artifacts[k].file_path = diff_plan.patch_plan[1].file

\* the place of an always-on artifact in the order of the always-on rules
AlwaysOnRank(template) ==
    IF template = <<"r", "u", "n", "b", "o", "o", "k">> THEN 1
    ELSE IF template = <<"l", "i", "n", "e", "a", "g", "e", "-", "s", "p", "e", "c">> THEN 2
    ELSE IF template = <<"c", "o", "n", "t", "r", "a", "c", "t", "-", "s", "t", "u", "b">> THEN 3
    ELSE IF template = <<"t", "e", "l", "e", "m", "e", "t", "r", "y", "-", "t", "e", "s", "t">> THEN 4
    ELSE 0

Interpolated(token, variables) ==
    IF token.name # <<>> /\ HasVar(variables, token.name)
    THEN LET value == VarValue(variables, token.name)
         IN  IF value.list THEN Join(value.items, <<",", " ">>) ELSE value.str
    ELSE token.text

\* C13: _interpolate returns the text with every placeholder whose name is
\* in the mapping replaced by the string form of its value, and every
\* placeholder whose name is not in it, like every other character, left as
\* it is; "${UNKNOWN_X}" with the empty mapping comes back unchanged.
C13_UnknownPlaceholdersKept ==
    Len(tpl_outputs) >= 1
    => /\ tpl_outputs[1]
            = Concat([i \in 1..Len(tpl_tokens) |->
                         Interpolated(tpl_tokens[i], tpl_variables)])
       /\ (tpl_tokens = <<PlaceholderToken(<<"U", "N", "K", "N", "O", "W", "N", "_", "X">>)>> /\ tpl_variables = <<>>)
          => tpl_outputs[1] = <<"$", "{", "U", "N", "K", "N", "O", "W", "N", "_", "X", "}">>

\* C13 witness: a text with a name that is in the mapping (a list) and one
\* that is not; the first is replaced and the second is kept
C13_Witness ==
    /\ Len(tpl_outputs) >= 1
    /\ tpl_tokens = <<PlaceholderToken(<<"L">>), LiteralToken(<<"x">>),
                      PlaceholderToken(<<"U", "N", "K", "N", "O", "W", "N", "_", "X">>)>>
    /\ HasVar(tpl_variables, <<"L">>)
    /\ ~HasVar(tpl_variables, <<"U", "N", "K", "N", "O", "W", "N", "_", "X">>)
    /\ tpl_outputs[1] = <<"a", ",", " ", "b", "x", "$", "{", "U", "N", "K", "N", "O", "W", "N", "_", "X", "}">>

\* a placeholder is somewhere in the text: "${", a name of one or more
\* word characters, "}"
HasPlaceholder(s) ==
    \E i \in 1..Len(s) : \E n \in 1..Len(s) :
        /\ i + 2 + n <= Len(s)
        /\ s[i] = "$"
        /\ s[i + 1] = "{"
        /\ \A k \in (i + 2)..(i + 1 + n) : IsWordChar(s[k])
        /\ s[i + 2 + n] = "}"

\* C14: when what _interpolate returned holds no placeholder any more,
\* applying _interpolate to it with the same mapping returns it unchanged.
C14_IdempotentWhenResolved ==
    (Len(tpl_outputs) >= 2 /\ ~HasPlaceholder(tpl_outputs[1]))
    => tpl_outputs[2] = tpl_outputs[1]

\* C14 witness: a text whose placeholder was replaced, after a lone "$",
\* and whose result came back unchanged from the second application
C14_Witness ==
    /\ Len(tpl_outputs) >= 2
    /\ tpl_tokens = <<LiteralToken(<<"$">>), PlaceholderToken(<<"A">>)>>
    /\ tpl_outputs[1] = <<"$", "v">>
    /\ ~HasPlaceholder(tpl_outputs[1])
    /\ tpl_outputs[2] = tpl_outputs[1]

\* a gateway operation is in progress or has ended
GatewayInUse == operation.name # "none"

\* every sleep of a _request call is the backoff of its attempt
AllExponential(slept) ==
    \A k \in 1..Len(slept) : slept[k].seconds = retry_delay * (2 ^ (k - 1))

\* every sleep of a _request call is the backoff of its attempt after an
\* error status, and the wait the server asks for, of at most 60 seconds,
\* after a rate-limit response
BackoffOrRateLimitWait(slept) ==
    \A k \in 1..Len(slept) :
        /\ slept[k].cause = "error_status"
           => slept[k].seconds = retry_delay * (2 ^ (k - 1))
        /\ slept[k].cause = "rate_limit"
           => slept[k].seconds <= rate_limit_sleep_cap

\* a _request call issues at most max_retries requests, returns only a
\* successful response, and raises only when the attempts are used up
RequestBounded ==
    /\ attempt < max_retries
    /\ requests <= max_retries - 1
    /\ last_call.outcome # "none"
       => /\ last_call.outcome \in {"returned", "HTTPStatusError", "RuntimeError"}
          /\ last_call.requests \in 1..max_retries
          /\ last_call.outcome = "returned" => last_call.code < 400
          /\ last_call.outcome # "returned"
             => (last_call.requests = max_retries /\ last_call.code >= 400)

\* C15 (as stated): _request retries rate-limit responses and error
\* statuses alike with the exponential backoff retry_delay * 2^attempt,
\* issues at most max_retries requests, and ends by returning a successful
\* response or raising.
C15_ExponentialBackoffRetries ==
    GatewayInUse
    => /\ RequestBounded
       /\ AllExponential(sleeps)
       /\ last_call.outcome # "none" => AllExponential(last_call.sleeps)

\* C15 (amended): as above, but the sleep after a rate-limit response is
\* the wait the server asks for, capped at 60 seconds, not the backoff.
C15_BoundedRetries ==
    GatewayInUse
    => /\ RequestBounded
       /\ BackoffOrRateLimitWait(sleeps)
       /\ last_call.outcome # "none" => BackoffOrRateLimitWait(last_call.sleeps)

\* C15 witness: three error statuses in a row: sleeps of 2 and 4 seconds,
\* then the HTTPStatusError of the third attempt leaves _request
C15_Witness ==
    /\ GatewayInUse
    /\ last_call.outcome = "HTTPStatusError"
    /\ last_call.requests = max_retries
    /\ last_call.sleeps = <<[cause |-> "error_status", seconds |-> 2],
                            [cause |-> "error_status", seconds |-> 4]>>

\* C16: at every point of commit_files, and after it has returned or
\* raised, the branch head shows none of the files or all of them in one
\* new commit; it shows all of them once commit_files has returned.
C16_CommitAllOrNothing ==
    (GatewayInUse /\ operation.name = "commit_files")
    => /\ remote.head_files \in {{}, 1..operation.n}
       /\ remote.new_commits <= 1
       /\ remote.new_commits = 1 <=> remote.head_files = 1..operation.n
       /\ op_result.kind = "returned" => remote.head_files = 1..operation.n
       /\ op_result.kind = "raised" => remote.head_files = {}

\* C16 witness: GitHubClient.commit_files fails after the blobs of both
\* files were created; the branch shows neither file
C16_Witness ==
    /\ GatewayInUse
    /\ backend = "github"
    /\ operation = [name |-> "commit_files", n |-> 2]
    /\ op_result.kind = "raised"
    /\ Len(op_items) = 2
    /\ remote.head_files = {}

\* C17 (as stated): get_codeowners never raises: it returns the owners of
\* the first location it could fetch, and the empty list when it could
\* fetch none, whatever made the fetches fail.
C17_CodeownersNeverRaises ==
    (GatewayInUse /\ operation.name = "get_codeowners" /\ op_result.kind # "none")
    => /\ op_result.kind = "returned"
       /\ op_result.value
            = (IF last_call.outcome = "returned"
               THEN ParseCodeowners(CodeownersContent(op_index))
               ELSE <<>>)


\* the names that have a built-in body but no directory in the library
BuiltinOnlyNames ==
    {name \in {<<"r", "u", "n", "b", "o", "o", "k">>, <<"l", "i", "n", "e", "a", "g", "e", "-", "s", "p", "e", "c">>, <<"c", "o", "n", "t", "r", "a", "c", "t", "-", "s", "t", "u", "b">>} :
        /\ _get_builtin_template(name) # <<>>
        /\ _find_template_dir(name) = {}}

\* C18: render_template for a name that has no template directory but has a
\* built-in body (runbook, contract-stub) does not answer "Template not
\* found": it returns the built-in body of that name interpolated with the
\* context.
C18_BuiltinFallback ==
    JustGenerated =>
        /\ BuiltinOnlyNames # {}
        /\ \A name \in BuiltinOnlyNames :
              LET rendered == render_template(name, context)
              IN  /\ ~rendered.raised
                  /\ \E i \in 1..Len(rendered.files) :
                        rendered.files[i][2] =
                            _interpolate(_get_builtin_template(name), to_dict(context))


ContextBuilt ==
    \E i \in 1..Len(steps) : steps[i] = "context"

\* the characters of the name that stand before its first hyphen
BeforeFirstHyphen(name) ==
    LET first == CHOOSE i \in 1..Len(name) :
                    /\ name[i] = "-"
                    /\ \A j \in 1..(i - 1) : name[j] # "-"
    IN  SubSeq(name, 1, first - 1)

\* C20: the namespace of the context is the part of the service name before
\* its first hyphen when the name has a hyphen (orders-enricher gives
\* orders, payments-ledger-api gives payments) and the literal "default"
\* when it has none (billing gives default).
C20_NamespaceDerivation ==
    ContextBuilt =>
        LET name == context.service_name
        IN  /\ name = diff_plan.repo
            /\ IF \E i \in 1..Len(name) : name[i] = "-"
               THEN context.namespace = BeforeFirstHyphen(name)
               ELSE context.namespace = <<"d", "e", "f", "a", "u", "l", "t">>
            /\ name = REPO_ORDERS_ENRICHER => context.namespace = <<"o", "r", "d", "e", "r", "s">>
            /\ name = REPO_PAYMENTS_LEDGER_API => context.namespace = <<"p", "a", "y", "m", "e", "n", "t", "s">>
            /\ name = REPO_BILLING => context.namespace = <<"d", "e", "f", "a", "u", "l", "t">>

\* a context built for the name with two hyphens
C20_Witness ==
    /\ ContextBuilt
    /\ context.service_name = REPO_PAYMENTS_LEDGER_API
    /\ context.namespace = <<"p", "a", "y", "m", "e", "n", "t", "s">>


\* some gap of the plan names a template that holds "kafka", in any case
NamesKafka(plan) ==
    \E i \in 1..Len(plan.gaps) :
        LET name == plan.gaps[i].template
        IN  \E k \in 1..(Len(name) - 4) :
               StrLower(SubSeq(name, k, k + 4)) = <<"k", "a", "f", "k", "a">>

\* C21: in the built context the topics are {service_name}_input and
\* {service_name}_output exactly when some gap's template name contains
\* "kafka" in any case, and both empty otherwise; so they are both empty or
\* both non-empty, whatever the number and order of the matching gaps.
C21_TopicsFollowKafkaGaps ==
    ContextBuilt =>
        /\ NamesKafka(diff_plan)
           => /\ context.input_topic = context.service_name \o <<"_", "i", "n", "p", "u", "t">>
              /\ context.output_topic = context.service_name \o <<"_", "o", "u", "t", "p", "u", "t">>
        /\ ~NamesKafka(diff_plan)
           => /\ context.input_topic = <<>>
              /\ context.output_topic = <<>>
        /\ (context.input_topic = <<>>) <=> (context.output_topic = <<>>)

\* a context built from a plan whose second gap alone names Kafka, in mixed
\* case
C21_Witness ==
    /\ ContextBuilt
    /\ Len(diff_plan.gaps) = 2
    /\ diff_plan.gaps[1].template = TMPL_LINEAGE_SPEC
    /\ diff_plan.gaps[2] = MixedCaseKafkaGap
    /\ context.input_topic = <<"o", "r", "d", "e", "r", "s", "-", "e", "n", "r", "i", "c", "h", "e", "r", "_", "i", "n", "p", "u", "t">>
    /\ context.output_topic = <<"o", "r", "d", "e", "r", "s", "-", "e", "n", "r", "i", "c", "h", "e", "r", "_", "o", "u", "t", "p", "u", "t">>


\* C22: the owner team of the context comes from the code-owner lookup of
\* the gateway: the lookup has been made by the time the context is built,
\* and the team is the default literal only when that lookup failed or gave
\* no owner.
C22_OwnerTeamFromLookup ==
    ContextBuilt =>
        /\ \E i \in 1..Len(calls) : calls[i] = "get_codeowners"
        /\ context.owner_team = PLATFORM_TEAM
           => \E i \in 1..Len(calls) : calls[i] = "get_codeowners"


\* the lookup has returned
Resolved == tpl_dir # <<>>

\* what each rule of the lookup finds in the library: the entry at
\* {language}/{base} for the name cut at its last hyphen, the directories
\* named as the template under any directory of templates_path, the entry at
\* common/{template_name}
RuleLanguagePath ==
    { d \in tpl_library :
        \E k \in 1..Len(tpl_name) :
           /\ tpl_name[k] = "-"
           /\ \A j \in (k + 1)..Len(tpl_name) : tpl_name[j] # "-"
           /\ d.name = SubSeq(tpl_name, 1, k - 1)
           /\ d.lang = SubSeq(tpl_name, k + 1, Len(tpl_name)) }

RuleScan == { d \in tpl_library : d.is_dir /\ d.name = tpl_name }

RuleCommon == { d \in tpl_library : d.lang = COMMON /\ d.name = tpl_name }

\* C23: the lookup follows a fixed priority: the {language}/{base} path of
\* the name cut at its last hyphen whenever it exists; otherwise a directory
\* named as the template under some directory of templates_path; otherwise
\* common/{template_name}; otherwise nothing. A later rule gives the answer
\* only when every earlier rule found nothing.
C23_ResolutionPriority ==
    Resolved =>
        LET answer == tpl_dir[1]
        IN  IF RuleLanguagePath # {}
            THEN answer.found /\ answer.dir \in RuleLanguagePath
            ELSE IF RuleScan # {}
            THEN answer.found /\ answer.dir \in RuleScan
            ELSE IF RuleCommon # {}
            THEN answer.found /\ answer.dir \in RuleCommon
            ELSE ~answer.found

\* the language path wins over a directory a scan would find and over
\* common/{template_name}
C23_Witness ==
    /\ Resolved
    /\ tpl_name = <<"o", "t", "e", "l", "-", "j", "a", "v", "a">>
    /\ RuleLanguagePath # {}
    /\ RuleScan \ RuleCommon # {}
    /\ RuleCommon # {}
    /\ tpl_dir[1].found
    /\ tpl_dir[1].dir.lang = LANG_JAVA


\* the run has returned the Published result
Published ==
    /\ pc = "returned"
    /\ result.status = "success"

\* C24: in every Published result files_changed is the number of files
\* handed to commit_files, also when two artifacts target the same path.
C24_FilesChangedIsCommitted ==
    Published =>
        /\ Len(vcs.commits) = 1
        /\ result.files_changed = Len(vcs.commits[1].files)


\* the identifier of the plan of the run: the one the plan supplies, or the
\* derived dp-{repo}
PlanIdentifier ==
    IF "diff_plan_id" \in DOMAIN diff_plan THEN diff_plan.diff_plan_id
    ELSE <<"d", "p", "-">> \o diff_plan.repo

\* C25: within one run the plan identifier is the same wherever it is
\* reported: in the returned result (Skipped, DryRun, Published or
\* artifacts-generated), in the context and the description, and in the
\* commit message, also when the plan supplies none and dp-{repo} is used.
C25_PlanIdAgrees ==
    /\ pc = "returned" => result.diff_plan_id = PlanIdentifier
    /\ ContextBuilt => context.diff_plan_id = PlanIdentifier
    /\ pc \in {"dispatch", "commit", "pr", "returned"} /\ ContextBuilt
       => pr_description.diff_plan_id = PlanIdentifier
    /\ \A i \in 1..Len(vcs.commits) :
          vcs.commits[i].message.diff_plan_id = PlanIdentifier


\* C27: a change request exists on the backend at the end of a run only if
\* the run returned Published: when process_diff_plan ends with a failure
\* of the gateway no change request has been opened, the failure of the
\* labelling request that follows the creation included.
C27_ChangeRequestOnlyIfPublished ==
    (Ended /\ vcs.change_requests # <<>>) => Published


\* the gap names a template and render_template gives its files
Addressed(gap) ==
    /\ gap.template # <<>>
    /\ ~render_template(gap.template, context).raised

\* C28: gaps_addressed of a Published result and the "Gaps Addressed" list
\* of the description hold only the gaps that were addressed: a gap without
\* a template, or whose template was not found or failed to render, is in
\* neither, as it is not in the artifact list.
C28_OnlyAddressedGapsListed ==
    Published =>
        LET addressed == SelectSeq(diff_plan.gaps, Addressed)
        IN  /\ result.gaps_addressed = [i \in 1..Len(addressed) |-> addressed[i].type]
            /\ pr_description.gaps_list =
                  [i \in 1..Len(addressed) |->
                      <<addressed[i].priority, addressed[i].type, addressed[i].description>>]


\* the paths of the output files of a template of the library: one for each
\* of its *.tmpl files
TemplateOutputs(name) ==
    LET dirs == _find_template_dir(name)
    IN  IF dirs = {} THEN {}
        ELSE LET files == (CHOOSE d \in dirs : TRUE).files
             IN  { _get_output_path(name, _interpolate(files[i].stem, to_dict(context)),
                                    context) : i \in 1..Len(files) }

\* C30: the contribution of a gap's template is all or nothing: for every gap
\* with a template, either every output file of the template is in the
\* artifact list, with action create and the template's name, or, when its
\* resolution or the rendering of any of its files fails, none is; the list
\* never holds some but not all of the output files of a template.
C30_TemplateAllOrNothing ==
    JustGenerated =>
        \A g \in 1..Len(diff_plan.gaps) :
            LET name    == diff_plan.gaps[g].template
                outs    == TemplateOutputs(name)
                present == { path \in outs :
                               \E k \in 1..Len(artifacts) :
                                  /\ artifacts[k].file_path = path
                                  /\ artifacts[k].template = name
                                  /\ artifacts[k].action = "create" }
            IN  name # <<>> => (present = {} \/ present = outs)

\* one template of two files gave both its artifacts and the template whose
\* second file cannot be read gave none
C30_Witness ==
    /\ JustGenerated
    /\ Len(diff_plan.gaps) = 2
    /\ diff_plan.gaps[1] = MultiFileGaps[2]
    /\ diff_plan.gaps[2] = MultiFileGaps[1]
    /\ Cardinality({ k \in 1..Len(artifacts) :
                       artifacts[k].template = MultiFileGaps[1].template }) = 2
    /\ \A k \in 1..Len(artifacts) : artifacts[k].template # MultiFileGaps[2].template
    /\ TemplateOutputs(MultiFileGaps[2].template) # {}


\* run r has been constructed or has failed to be
Constructed(r) == runs[r].pc # "new"

\* run r has called create_branch
Attempted(r) == runs[r].branch_name # <<>>

\* C26: any two publishing runs for the same repository use distinct branch
\* names, so create_branch of one never meets a branch another created
C26_DistinctBranchNames ==
    \A r, s \in DOMAIN runs :
        (r # s /\ Attempted(r) /\ Attempted(s) /\ runs[r].repo = runs[s].repo)
            => runs[r].branch_name # runs[s].branch_name

\* C29: constructing the GitHub client, and so the agent with the default
\* backend, succeeds when no access token is configured, and its request
\* headers carry no Authorization entry
C29_ConstructsWithoutToken ==
    \A r \in DOMAIN runs :
        (Constructed(r) /\ runs[r].vcs_client = "github" /\ ~Truthy(runs[r].environ_token))
            => /\ runs[r].agent.raised = "none"
               /\ \A i \in 1..Len(runs[r].agent.headers) :
                      runs[r].agent.headers[i][1] # "Authorization"

=============================================================================
